---- MODULE Spec2Model ----
(***************************************************************************)
(* State-machine model of the OmniStream digital twin's condition          *)
(* monitoring core:                                                        *)
(*   - the PdM web worker (client/src/workers/pdm.worker.ts): per-turbine  *)
(*     peak window, decimation, EMA, trend regression, RUL projection,     *)
(*     median-of-3 RUL filter and thermal classification;                  *)
(*   - the pure math helpers exported next to the Historian                *)
(*     (client/src/utils/Historian.ts), and the Historian itself;          *)
(*   - the main thread's provider (App): the simulation worker's message   *)
(*     handler, which feeds the Historian and the PdM worker, and the      *)
(*     data-stale watchdog.                                                *)
(*                                                                         *)
(* JavaScript numbers are modelled as exact rationals <<n, d>> in lowest   *)
(* terms with d > 0; Infinity is <<1, 0>>.  Counters that the code only    *)
(* ever increments by one (heads, counts) are plain integers.              *)
(*                                                                         *)
(* Where the rounding of IEEE 754 binary64 decides the outcome (the        *)
(* regression's sums over timestamps, the RUL projection) the functions    *)
(* are modelled a second time on bit-exact doubles: a sign, an odd         *)
(* mantissa held as a multi-limb natural and an exponent, every operation  *)
(* rounded to nearest, ties to even.                                       *)
(***************************************************************************)
EXTENDS Integers, Sequences, FiniteSets, TLC

\* ------------------------------------------------------------------------
\* Exact rational arithmetic (the model of JS number arithmetic)
\* ------------------------------------------------------------------------

Abs(i) == IF i < 0 THEN -i ELSE i

RECURSIVE GCD(_, _)
GCD(a, b) == IF b = 0 THEN a ELSE GCD(b, a % b)

\* n/d in lowest terms with a positive denominator (d # 0).
Norm(n, d) ==
    LET g == GCD(Abs(n), Abs(d))
        s == IF d < 0 THEN -1 ELSE 1
    IN  <<(s * n) \div g, (s * d) \div g>>

R(i) == <<i, 1>>
Q(n, d) == Norm(n, d)

\* JS NaN: what a non-numeric value becomes when it is stored in a
\* Float64Array or enters an arithmetic operation.  Arithmetic on NaN gives
\* NaN and every comparison with NaN is false.
NaN == <<0, 0>>
IsNaN(a) == a[1] = 0 /\ a[2] = 0

\* The operations cancel common factors before they multiply, so that
\* intermediate values stay as small as the results.
RAdd(a, b) ==
    IF IsNaN(a) \/ IsNaN(b) THEN NaN
    ELSE LET g == GCD(a[2], b[2])
         IN  Norm(a[1] * (b[2] \div g) + b[1] * (a[2] \div g), (a[2] \div g) * b[2])
RNeg(a) == <<-a[1], a[2]>>
RSub(a, b) == RAdd(a, RNeg(b))
RMul(a, b) ==
    IF IsNaN(a) \/ IsNaN(b) THEN NaN
    ELSE LET g1 == GCD(Abs(a[1]), b[2])
             g2 == GCD(Abs(b[1]), a[2])
         IN  Norm((a[1] \div g1) * (b[1] \div g2), (a[2] \div g2) * (b[2] \div g1))
\* a / b for b # 0
RDiv(a, b) ==
    RMul(a, IF b[1] < 0 THEN <<-b[2], -b[1]>> ELSE <<b[2], b[1]>>)
RLt(a, b) ==
    IF IsNaN(a) \/ IsNaN(b) THEN FALSE
    ELSE LET g == GCD(a[2], b[2])
         IN  a[1] * (b[2] \div g) < b[1] * (a[2] \div g)
RLe(a, b) ==
    IF IsNaN(a) \/ IsNaN(b) THEN FALSE
    ELSE LET g == GCD(a[2], b[2])
         IN  a[1] * (b[2] \div g) <= b[1] * (a[2] \div g)
RGe(a, b) == RLe(b, a)
RGt(a, b) == RLt(b, a)
RAbs(a) == <<Abs(a[1]), a[2]>>
RIsZero(a) == a[1] = 0 /\ a[2] # 0

\* JS Infinity (only produced by the exported calculateRUL).
Infinity == <<1, 0>>

\* JS null (the EMA state before the first firing).
Null == "null"

\* ------------------------------------------------------------------------
\* Configuration (client/src/config/thresholds.ts) and worker constants
\* ------------------------------------------------------------------------

\* VIB_LIMITS.critical = 11.2
VibCritical == Q(112, 10)
VibWarning == Q(71, 10)
\* TEMP_LIMITS.warning = 940, TEMP_LIMITS.critical = 955
TempWarning == R(940)
TempCritical == R(955)

\* Literals of calculateRUL: noise floor 4.0, minimum slope 0.01,
\* horizon cap 120 s, "stable" sentinel 999.
NoiseFloor == R(4)
MinSlope == Q(1, 100)
HorizonCap == R(120)
Sentinel == R(999)

\* EMA coefficients at the two call sites: 0.1 (vibration), 0.05 (thermal).
AlphaVib == Q(1, 10)
AlphaTemp == Q(1, 20)

\* Capacity of the raw peak window (RAW_BUFFER_SIZE = 50 in the source) and
\* of the trend buffer (BUFFER_SIZE = 250 in the source).  The worker's code
\* is parametric in both; the model runs them scaled down to 2 and 3, so
\* that the window and the trend buffer fill, wrap and fire within the
\* explored depth.  Every property below is stated in terms of the two
\* names, never of their values.
RAW_BUFFER_SIZE == 2
BUFFER_SIZE == 3

\* Slots of the RUL median ring: new Float64Array(3).
RUL_SLOTS == 3

\* ------------------------------------------------------------------------
\* Inline math of the worker
\* ------------------------------------------------------------------------

\* calculateEMA without the cold start: a null previous value counts as 0,
\* as it does in JS arithmetic.
calculateEMA_noColdStart(current, previous, alpha) ==
    RAdd(RMul(current, alpha),
         RMul(IF previous = Null THEN R(0) ELSE previous, RSub(R(1), alpha)))

\* calculateEMA with the two weights exchanged.
calculateEMA_swappedWeights(current, previous, alpha) ==
    IF previous = Null THEN current
    ELSE RAdd(RMul(current, RSub(R(1), alpha)), RMul(previous, alpha))

\* calculateEMA(current, previous, alpha)
calculateEMA(current, previous, alpha) ==
    IF previous = Null THEN current
    ELSE RAdd(RMul(current, alpha), RMul(previous, RSub(R(1), alpha)))

\* Sum of f[(start + i) % capacity] for i in 0 .. k-1, the loop of
\* calculateLinearRegressionTyped.
RECURSIVE RingSum(_, _, _, _)
RingSum(f, start, k, capacity) ==
    IF k = 0 THEN R(0)
    ELSE RAdd(RingSum(f, start, k - 1, capacity), f[(start + k - 1) % capacity])

\* calculateLinearRegressionTyped(xBuf, yBuf, head, count, capacity)
calculateLinearRegressionTyped(xBuf, yBuf, head, count, capacity) ==
    IF count < 2 THEN R(0)
    ELSE
      LET start == (head - count + capacity) % capacity
          xy    == [i \in DOMAIN xBuf |-> RMul(xBuf[i], yBuf[i])]
          xx    == [i \in DOMAIN xBuf |-> RMul(xBuf[i], xBuf[i])]
          sumX  == RingSum(xBuf, start, count, capacity)
          sumY  == RingSum(yBuf, start, count, capacity)
          sumXY == RingSum(xy, start, count, capacity)
          sumX2 == RingSum(xx, start, count, capacity)
          n     == R(count)
          xMean == RDiv(sumX, n)
          yMean == RDiv(sumY, n)
          num   == RSub(sumXY, RMul(n, RMul(xMean, yMean)))
          den   == RSub(sumX2, RMul(n, RMul(xMean, xMean)))
      IN  IF RIsZero(den) THEN R(0) ELSE RDiv(num, den)

\* calculateRUL with the noise-floor test moved ahead of the failed test.
calculateRUL_floorFirst(current, slope, threshold) ==
    IF RLt(current, NoiseFloor) THEN Sentinel
    ELSE IF RGe(current, threshold) THEN R(0)
    ELSE IF RLe(slope, MinSlope) THEN Sentinel
    ELSE LET rul == RDiv(RSub(threshold, current), slope)
         IN  IF RGt(rul, HorizonCap) THEN Sentinel ELSE rul

\* calculateRUL with the failed test made after the slope test.
calculateRUL_failedLast(current, slope, threshold) ==
    IF RLt(current, NoiseFloor) THEN Sentinel
    ELSE IF RLe(slope, MinSlope) THEN Sentinel
    ELSE IF RGe(current, threshold) THEN R(0)
    ELSE LET rul == RDiv(RSub(threshold, current), slope)
         IN  IF RGt(rul, HorizonCap) THEN Sentinel ELSE rul

\* calculateRUL projecting from the gap taken as current - threshold.
calculateRUL_reversedGap(current, slope, threshold) ==
    IF RGe(current, threshold) THEN R(0)
    ELSE IF RLt(current, NoiseFloor) THEN Sentinel
    ELSE IF RLe(slope, MinSlope) THEN Sentinel
    ELSE LET rul == RDiv(RSub(current, threshold), slope)
         IN  IF RGt(rul, HorizonCap) THEN Sentinel ELSE rul

\* calculateRUL with the minimum slope of the exported calculateRUL: 0.
calculateRUL_zeroMinSlope(current, slope, threshold) ==
    IF RGe(current, threshold) THEN R(0)
    ELSE IF RLt(current, NoiseFloor) THEN Sentinel
    ELSE IF RLe(slope, R(0)) THEN Sentinel
    ELSE LET rul == RDiv(RSub(threshold, current), slope)
         IN  IF RGt(rul, HorizonCap) THEN Sentinel ELSE rul

\* The worker's calculateRUL(current, slope, threshold)
calculateRUL(current, slope, threshold) ==
    IF RGe(current, threshold) THEN R(0)
    ELSE IF RLt(current, NoiseFloor) THEN Sentinel
    ELSE IF RLe(slope, MinSlope) THEN Sentinel
    ELSE LET rul == RDiv(RSub(threshold, current), slope)
         IN  IF RGt(rul, HorizonCap) THEN Sentinel ELSE rul

\* The exported calculateRUL(currentVibration, slope, criticalThreshold) of
\* utils (Historian.ts lines 174-184).
utilsCalculateRUL(currentVibration, slope, criticalThreshold) ==
    IF RLe(slope, R(0)) THEN Infinity
    ELSE LET remainingVibrationToThreshold == RSub(criticalThreshold, currentVibration)
         IN  IF RLe(remainingVibrationToThreshold, R(0)) THEN R(0)
             ELSE RDiv(remainingVibrationToThreshold, slope)

\* ------------------------------------------------------------------------
\* TurbineState (one per turbine id)
\* ------------------------------------------------------------------------

\* The default Condition Snapshot, TurbineState.currentPdM
DefaultPdM ==
    [smoothedVibration   |-> R(0),
     degradationSlope    |-> R(0),
     estimatedRUL        |-> Sentinel,
     smoothedTemperature |-> R(0),
     temperatureStatus   |-> "nominal"]

\* new TurbineState()
NewTurbineState ==
    [vibBuffer              |-> [i \in 0 .. RAW_BUFFER_SIZE - 1 |-> R(0)],
     vibHead                |-> 0,
     vibCount               |-> 0,
     pointsSinceLastProcess |-> 0,
     trendTsBuffer          |-> [i \in 0 .. BUFFER_SIZE - 1 |-> R(0)],
     trendEmaBuffer         |-> [i \in 0 .. BUFFER_SIZE - 1 |-> R(0)],
     trendHead              |-> 0,
     trendCount             |-> 0,
     lastEMA                |-> Null,
     lastTempEMA            |-> Null,
     rulBuffer              |-> [i \in 0 .. RUL_SLOTS - 1 |-> Sentinel],
     rulHead                |-> 0,
     currentPdM             |-> DefaultPdM]

\* pushVib without the cap on the count of the window.
pushVib_uncapped(state, value) ==
    [state EXCEPT
       !.vibBuffer = [@ EXCEPT ![state.vibHead % RAW_BUFFER_SIZE] = value],
       !.vibHead = @ + 1,
       !.vibCount = @ + 1,
       !.pointsSinceLastProcess = @ + 1]

\* TurbineState.pushVib(value)
pushVib(state, value) ==
    [state EXCEPT
       !.vibBuffer = [@ EXCEPT ![state.vibHead % RAW_BUFFER_SIZE] = value],
       !.vibHead = @ + 1,
       !.vibCount = IF @ < RAW_BUFFER_SIZE THEN @ + 1 ELSE @,
       !.pointsSinceLastProcess = @ + 1]

\* Maximum of |vibBuffer[(start + i) % RAW_BUFFER_SIZE]| for i in 0 .. k-1,
\* starting from 0: the loop of peakVib.
RECURSIVE PeakScan(_, _, _)
PeakScan(buf, start, k) ==
    IF k = 0 THEN R(0)
    ELSE LET peak == PeakScan(buf, start, k - 1)
             v    == RAbs(buf[(start + k - 1) % RAW_BUFFER_SIZE])
         IN  IF RGt(v, peak) THEN v ELSE peak

\* The scan of peakVib on the signed values (no Math.abs).
RECURSIVE PeakScan_signed(_, _, _)
PeakScan_signed(buf, start, k) ==
    IF k = 0 THEN R(0)
    ELSE LET peak == PeakScan_signed(buf, start, k - 1)
             v    == buf[(start + k - 1) % RAW_BUFFER_SIZE]
         IN  IF RGt(v, peak) THEN v ELSE peak

\* peakVib comparing the signed values.
peakVib_signed(state) ==
    LET n     == state.vibCount
        start == (state.vibHead - n + RAW_BUFFER_SIZE) % RAW_BUFFER_SIZE
    IN  PeakScan_signed(state.vibBuffer, start, n)

\* TurbineState.peakVib()
peakVib(state) ==
    LET n     == state.vibCount
        start == (state.vibHead - n + RAW_BUFFER_SIZE) % RAW_BUFFER_SIZE
    IN  PeakScan(state.vibBuffer, start, n)

\* pushTrend choosing its slot by the count instead of the head: once the
\* ring is full every push lands in slot 0.
pushTrend_countIndexed(state, ts, ema) ==
    LET idx == state.trendCount % BUFFER_SIZE
    IN  [state EXCEPT
           !.trendTsBuffer = [@ EXCEPT ![idx] = ts],
           !.trendEmaBuffer = [@ EXCEPT ![idx] = ema],
           !.trendHead = @ + 1,
           !.trendCount = IF @ < BUFFER_SIZE THEN @ + 1 ELSE @]

\* TurbineState.pushTrend(ts, ema)
pushTrend(state, ts, ema) ==
    LET idx == state.trendHead % BUFFER_SIZE
    IN  [state EXCEPT
           !.trendTsBuffer = [@ EXCEPT ![idx] = ts],
           !.trendEmaBuffer = [@ EXCEPT ![idx] = ema],
           !.trendHead = @ + 1,
           !.trendCount = IF @ < BUFFER_SIZE THEN @ + 1 ELSE @]


\* ------------------------------------------------------------------------
\* Steps of the message handler (self.onmessage)
\* ------------------------------------------------------------------------

\* The decimation condition without its counter test.
Fires_windowOnly(state) ==
    state.vibCount >= RAW_BUFFER_SIZE

\* The decimation condition tested after pushVib.
Fires(state) ==
    state.vibCount >= RAW_BUFFER_SIZE /\ state.pointsSinceLastProcess >= RAW_BUFFER_SIZE

\* [a, b, c].sort((x, y) => x - y)[1]
Median3(a, b, c) ==
    IF RLe(a, b)
    THEN (IF RLe(b, c) THEN b ELSE IF RLe(a, c) THEN c ELSE a)
    ELSE (IF RLe(a, c) THEN a ELSE IF RLe(b, c) THEN c ELSE b)

\* The filter without the "failed" override: a raw 0 goes through the ring.
RulFilter_noZeroFill(rulBuffer, rulHead, rawRul) ==
    LET buf == IF rawRul = Sentinel THEN [i \in DOMAIN rulBuffer |-> Sentinel]
               ELSE [rulBuffer EXCEPT ![rulHead % RUL_SLOTS] = rawRul]
        head == IF rawRul = Sentinel THEN rulHead ELSE rulHead + 1
        smoothedRul == IF rawRul # Sentinel
                       THEN Median3(buf[0], buf[1], buf[2])
                       ELSE rawRul
    IN  [rulBuffer |-> buf, rulHead |-> head, smoothedRul |-> smoothedRul]

\* The filter without the "stable" override: a sentinel is written to the
\* next slot like any other value.
RulFilter_noStableFill(rulBuffer, rulHead, rawRul) ==
    LET buf == IF rawRul = R(0) THEN [i \in DOMAIN rulBuffer |-> R(0)]
               ELSE [rulBuffer EXCEPT ![rulHead % RUL_SLOTS] = rawRul]
        head == IF rawRul = R(0) THEN rulHead ELSE rulHead + 1
        smoothedRul == IF rawRul # R(0)
                       THEN Median3(buf[0], buf[1], buf[2])
                       ELSE rawRul
    IN  [rulBuffer |-> buf, rulHead |-> head, smoothedRul |-> smoothedRul]

\* The filter taking its median before the new value is written.
RulFilter_medianBeforeWrite(rulBuffer, rulHead, rawRul) ==
    LET buf == IF rawRul = R(0) THEN [i \in DOMAIN rulBuffer |-> R(0)]
               ELSE IF rawRul = Sentinel THEN [i \in DOMAIN rulBuffer |-> Sentinel]
               ELSE [rulBuffer EXCEPT ![rulHead % RUL_SLOTS] = rawRul]
        head == IF rawRul = R(0) \/ rawRul = Sentinel THEN rulHead ELSE rulHead + 1
        smoothedRul == IF rawRul # R(0) /\ rawRul # Sentinel
                       THEN Median3(rulBuffer[0], rulBuffer[1], rulBuffer[2])
                       ELSE rawRul
    IN  [rulBuffer |-> buf, rulHead |-> head, smoothedRul |-> smoothedRul]

\* The filter with rulHead left where it is after a write to the ring.
RulFilter_headKept(rulBuffer, rulHead, rawRul) ==
    LET buf == IF rawRul = R(0) THEN [i \in DOMAIN rulBuffer |-> R(0)]
               ELSE IF rawRul = Sentinel THEN [i \in DOMAIN rulBuffer |-> Sentinel]
               ELSE [rulBuffer EXCEPT ![rulHead % RUL_SLOTS] = rawRul]
        smoothedRul == IF rawRul # R(0) /\ rawRul # Sentinel
                       THEN Median3(buf[0], buf[1], buf[2])
                       ELSE rawRul
    IN  [rulBuffer |-> buf, rulHead |-> rulHead, smoothedRul |-> smoothedRul]

\* Instant overrides and median-of-3 filter: the new ring, head and output.
RulFilter(rulBuffer, rulHead, rawRul) ==
    LET buf == IF rawRul = R(0) THEN [i \in DOMAIN rulBuffer |-> R(0)]
               ELSE IF rawRul = Sentinel THEN [i \in DOMAIN rulBuffer |-> Sentinel]
               ELSE [rulBuffer EXCEPT ![rulHead % RUL_SLOTS] = rawRul]
        head == IF rawRul = R(0) \/ rawRul = Sentinel THEN rulHead ELSE rulHead + 1
        smoothedRul == IF rawRul # R(0) /\ rawRul # Sentinel
                       THEN Median3(buf[0], buf[1], buf[2])
                       ELSE rawRul
    IN  [rulBuffer |-> buf, rulHead |-> head, smoothedRul |-> smoothedRul]

\* The thermal bands with strict comparisons.
TempStatus_strict(tempEma) ==
    IF RGt(tempEma, TempCritical) THEN "critical"
    ELSE IF RGt(tempEma, TempWarning) THEN "warning"
    ELSE "nominal"

\* Thermal band of a smoothed temperature.
TempStatus(tempEma) ==
    IF RGe(tempEma, TempCritical) THEN "critical"
    ELSE IF RGe(tempEma, TempWarning) THEN "warning"
    ELSE "nominal"

\* The raw RUL projected to the warning limit instead of the critical one.
SlopeRul_warningLimit(ema, slope) ==
    [slope |-> slope, rawRul |-> calculateRUL(ema, slope, VibWarning)]

\* Slope and the raw RUL calculateRUL derives from it.
SlopeRul(ema, slope) ==
    [slope |-> slope, rawRul |-> calculateRUL(ema, slope, VibCritical)]

\* Slope and raw RUL computed from the first trend point on (no burn-in).
SlopeAndRul_noBurnIn(state, ema) ==
    IF state.trendCount >= 1
    THEN SlopeRul(ema, calculateLinearRegressionTyped(
                           state.trendTsBuffer, state.trendEmaBuffer,
                           state.trendHead, state.trendCount, BUFFER_SIZE))
    ELSE [slope |-> R(0), rawRul |-> Sentinel]

\* Slope and raw RUL of a firing: 0 and the sentinel during burn-in.
SlopeAndRul(state, ema) ==
    IF state.trendCount >= BUFFER_SIZE
    THEN SlopeRul(ema, calculateLinearRegressionTyped(
                           state.trendTsBuffer, state.trendEmaBuffer,
                           state.trendHead, state.trendCount, BUFFER_SIZE))
    ELSE [slope |-> R(0), rawRul |-> Sentinel]

\* The decimation branch is a chain of steps, each handing the values the
\* handler has computed so far to the next one.

\* Last step: the new snapshot, assigned as a whole (state.currentPdM = ...).
FireSnapshot(state, ema, sr, f, tempEma) ==
    [state  |-> [state EXCEPT
                   !.rulBuffer = f.rulBuffer,
                   !.rulHead = f.rulHead,
                   !.lastTempEMA = tempEma,
                   !.currentPdM = [smoothedVibration   |-> ema,
                                   degradationSlope    |-> sr.slope,
                                   estimatedRUL        |-> f.smoothedRul,
                                   smoothedTemperature |-> tempEma,
                                   temperatureStatus   |-> TempStatus(tempEma)]],
     fired  |-> TRUE,
     rawRul |-> sr.rawRul]

\* The filter step with the thermal EMA smoothed from the amplitude's EMA
\* state instead of its own.
FireFilter_sharedEmaState(state, update, ema, sr) ==
    FireSnapshot(state, ema, sr,
                 RulFilter(state.rulBuffer, state.rulHead, sr.rawRul),
                 calculateEMA(update.temperature, state.lastEMA, AlphaTemp))

\* Overrides and median filter on the raw RUL, then the thermal EMA.
FireFilter(state, update, ema, sr) ==
    FireSnapshot(state, ema, sr,
                 RulFilter(state.rulBuffer, state.rulHead, sr.rawRul),
                 calculateEMA(update.temperature, state.lastTempEMA, AlphaTemp))

\* The trend step without the assignment to lastEMA: every firing smooths
\* from the cold start.
FireTrend_emaNotStored(state, update, ema) ==
    LET pushed == pushTrend(state, update.timestamp, ema)
    IN  FireFilter(pushed, update, ema, SlopeAndRul(pushed, ema))

\* lastEMA is stored, the trend point pushed, slope and raw RUL computed.
FireTrend(state, update, ema) ==
    LET pushed == pushTrend([state EXCEPT !.lastEMA = ema], update.timestamp, ema)
    IN  FireFilter(pushed, update, ema, SlopeAndRul(pushed, ema))

\* The body of the decimation branch for one update, applied to the state
\* after pushVib: the counter is reset and the peak of the window smoothed.
\* Returns the new TurbineState and the raw RUL the firing computed.
FireBranch(state, update) ==
    LET reset == [state EXCEPT !.pointsSinceLastProcess = 0]
    IN  FireTrend(reset, update, calculateEMA(peakVib(reset), reset.lastEMA, AlphaVib))

\* The thermal step applied to a sample that does not fire.
ThermalOnly(state, tempEma) ==
    [state  |-> [state EXCEPT
                   !.lastTempEMA = tempEma,
                   !.currentPdM.smoothedTemperature = tempEma,
                   !.currentPdM.temperatureStatus = TempStatus(tempEma)],
     fired  |-> FALSE,
     rawRul |-> Null]

\* The loop body with the thermal step hoisted out of the decimation
\* branch: a sample that does not fire still refreshes the snapshot's
\* temperature fields.
ProcessUpdate_thermalEverySample(state, update) ==
    LET pushed == pushVib(state, update.vibration)
    IN  IF Fires(pushed)
        THEN FireBranch(pushed, update)
        ELSE ThermalOnly(pushed, calculateEMA(update.temperature,
                                              pushed.lastTempEMA, AlphaTemp))

\* One iteration of the loop over updates, on the turbine's state.
ProcessUpdate(state, update) ==
    LET pushed == pushVib(state, update.vibration)
    IN  IF Fires(pushed)
        THEN FireBranch(pushed, update)
        ELSE [state |-> pushed, fired |-> FALSE, rawRul |-> Null]


\* ------------------------------------------------------------------------
\* Worker state and the message handler
\* ------------------------------------------------------------------------

VARIABLES
    fleet,    \* Map<string, TurbineState>: the worker's registry
    posted,   \* the states map of the last PdMWorkerOutput posted
    probe,    \* observation only: per turbine, what its last sample did
    fnArgs,   \* the call last made on a helper or on the Historian
    fnOut,    \* what that call returned
    hfleet,   \* TelemetryHistorian.fleet: Map<string, {buffer, head, count}>
    hsize,    \* TelemetryHistorian.size (0: no Historian constructed)
    added,    \* observation only: per id, every payload passed to add()
    now,                \* Date.now() on the main thread, in ms
    lastSeenRef,        \* lastSeenRef.current
    connStatus,         \* the React state set by setConnStatus
    connStatusRef,      \* connStatusRef.current
    watchdogDue,        \* when the next setInterval callback is due
    selectedTurbineRef, \* selectedTurbineRef.current
    lastPayloadRender,  \* the closure variable of the UI throttle
    fleetTelemetry,     \* the React state set by setFleetTelemetry
    inbox,              \* messages posted to the PdM worker, not yet handled
    received,           \* observation only: every simulator message, in order
    handled             \* observation only: every message the worker handled

mainVars == <<now, lastSeenRef, connStatus, connStatusRef, watchdogDue,
              selectedTurbineRef, lastPayloadRender, fleetTelemetry,
              inbox, received, handled>>

vars == <<fleet, posted, probe, fnArgs, fnOut, hfleet, hsize, added, mainVars>>

workerVars == <<fleet, posted, probe>>
fnVars == <<fnArgs, fnOut>>
histVars == <<hfleet, hsize, added>>

EmptyMap == [x \in {} |-> x]

MapPut(f, k, v) == [x \in DOMAIN f \cup {k} |-> IF x = k THEN v ELSE f[x]]

\* getTurbine(id): the registry after the lazy creation.
getTurbine(fl, id) ==
    IF id \in DOMAIN fl THEN fl ELSE MapPut(fl, id, NewTurbineState)

\* The last (up to) three elements of s \o <<x>>.
Last3(s, x) ==
    LET t == Append(s, x)
    IN  IF Len(t) > 3 THEN SubSeq(t, Len(t) - 2, Len(t)) ELSE t

\* The last (up to) n elements of s \o <<x>>.
LastN(s, x, n) ==
    IF Len(s) >= n THEN Append(SubSeq(s, Len(s) - n + 2, Len(s)), x)
    ELSE Append(s, x)

NewProbe ==
    [samples |-> 0, firings |-> 0, fired |-> FALSE,
     raws |-> <<>>, temperature |-> Null, prevTempEMA |-> Null, prevEMA |-> Null,
     peaks |-> <<>>, window |-> <<>>, trend |-> <<>>]

\* The probe of a turbine after one of its samples: how many samples and
\* firings it has had, whether this sample fired, the vibrations received
\* since the last firing (window) and, for a firing, the raw RULs of the last
\* three firings, the sample's temperature, the two EMA states the firing
\* started from, the vibrations received since the firing before (peaks) and
\* the last BUFFER_SIZE trend points <<timestamp, ema>> pushed (trend).
Observe(pr, before, update, r) ==
    IF r.fired
    THEN [samples     |-> pr.samples + 1,
          firings     |-> pr.firings + 1,
          fired       |-> TRUE,
          raws        |-> Last3(pr.raws, r.rawRul),
          temperature |-> update.temperature,
          prevTempEMA |-> before.lastTempEMA,
          prevEMA     |-> before.lastEMA,
          peaks       |-> Append(pr.window, update.vibration),
          window      |-> <<>>,
          trend       |-> LastN(pr.trend, <<update.timestamp, r.state.lastEMA>>,
                                BUFFER_SIZE)]
    ELSE [pr EXCEPT !.samples = @ + 1, !.fired = FALSE,
                    !.window = Append(@, update.vibration)]

\* The end of one loop iteration with one TurbineState object shared by
\* the whole registry: what one turbine's sample writes, all turbines see.
StoreUpdate_sharedState(fl, responseMap, pr, update, r) ==
    [fleet       |-> [x \in DOMAIN fl |-> r.state],
     responseMap |-> MapPut(responseMap, update.id, r.state.currentPdM),
     probe       |-> MapPut(pr, update.id,
                            Observe(IF update.id \in DOMAIN pr THEN pr[update.id]
                                    ELSE NewProbe,
                                    fl[update.id], update, r))]

\* The end of one loop iteration: the turbine's new state is kept in the
\* registry and its snapshot entered in the response map.
StoreUpdate(fl, responseMap, pr, update, r) ==
    [fleet       |-> [fl EXCEPT ![update.id] = r.state],
     responseMap |-> MapPut(responseMap, update.id, r.state.currentPdM),
     probe       |-> MapPut(pr, update.id,
                            Observe(IF update.id \in DOMAIN pr THEN pr[update.id]
                                    ELSE NewProbe,
                                    fl[update.id], update, r))]

\* One loop iteration, on the registry getTurbine returns.
LoopBody(fl, responseMap, pr, update) ==
    StoreUpdate(fl, responseMap, pr, update, ProcessUpdate(fl[update.id], update))

\* The for-loop of the handler from update i on: registry, response map and
\* probe after the remaining updates.
RECURSIVE ProcessBatch(_, _, _)
ProcessBatch(acc, updates, i) ==
    IF i > Len(updates) THEN acc
    ELSE ProcessBatch(LoopBody(getTurbine(acc.fleet, updates[i].id),
                               acc.responseMap, acc.probe, updates[i]),
                      updates, i + 1)

\* ------------------------------------------------------------------------
\* Inputs explored
\* ------------------------------------------------------------------------

\* Firings explored per run of the worker.
MaxFirings == 5

MaxSamples == MaxFirings * RAW_BUFFER_SIZE

TurbineIds == {"T-01"}
Vibrations == {R(-20), R(5)}
Temperatures == {R(800), R(960)}

\* The updates the main thread can send at time t: it stamps every sample
\* of a batch with the time the simulator produced it.
UpdatesAt(t, vibs, temps) ==
    [id : TurbineIds, timestamp : {R(t)}, vibration : vibs, temperature : temps]

RECURSIVE SumHeads(_, _)
SumHeads(fl, ids) ==
    IF ids = {} THEN 0
    ELSE LET id == CHOOSE x \in ids : TRUE
         IN  fl[id].vibHead + SumHeads(fl, ids \ {id})

\* Samples received so far, over all turbines.
SamplesSeen == SumHeads(fleet, DOMAIN fleet)

\* The handler with a response map that outlives the call: entries of
\* earlier batches stay in the response.
PostMessage_keepPrevious(r) ==
    /\ fleet' = r.fleet
    /\ posted' = [id \in DOMAIN posted \cup DOMAIN r.responseMap |->
                     IF id \in DOMAIN r.responseMap THEN r.responseMap[id]
                     ELSE posted[id]]
    /\ probe' = r.probe

\* self.onmessage({ data: { updates } })
\* The handler's effect: the registry as the loop left it and the response
\* map posted.
PostMessage(r) ==
    /\ fleet' = r.fleet
    /\ posted' = r.responseMap
    /\ probe' = r.probe

OnMessage(updates) ==
    /\ PostMessage(ProcessBatch([fleet |-> fleet, responseMap |-> EmptyMap,
                                 probe |-> probe], updates, 1))
    /\ UNCHANGED <<fnVars, histVars, mainVars>>

\* The worker right after the module is loaded: an empty registry.
WorkerInit ==
    /\ fleet = EmptyMap
    /\ posted = EmptyMap
    /\ probe = EmptyMap

\* No Historian: the worker and the helpers run without one.
NoHistorian ==
    /\ hfleet = EmptyMap
    /\ hsize = 0
    /\ added = EmptyMap

\* The worker and the helpers run without the main thread: the provider is
\* not mounted.
NoProvider ==
    /\ now = 0
    /\ lastSeenRef = 0
    /\ connStatus = "DISCONNECTED"
    /\ connStatusRef = "DISCONNECTED"
    /\ watchdogDue = 0
    /\ selectedTurbineRef = "OVERVIEW"
    /\ lastPayloadRender = 0
    /\ fleetTelemetry = <<>>
    /\ inbox = <<>>
    /\ received = <<>>
    /\ handled = <<>>

Init ==
    /\ WorkerInit
    /\ NoProvider
    /\ NoHistorian
    /\ fnArgs = Null
    /\ fnOut = Null

\* The simulator's clock ticks once per batch.
Now == SamplesSeen + 1

Next ==
    /\ SamplesSeen < MaxSamples
    /\ \E u \in UpdatesAt(Now, Vibrations, Temperatures) : OnMessage(<<u>>)

Spec == Init /\ [][Next]_vars


\* ------------------------------------------------------------------------
\* The thermal path explored on its own: one vibration, temperatures on
\* both sides of, and on, the two limits.
\* ------------------------------------------------------------------------

ThermalTemperatures == {R(800), R(940), R(955), R(960), R(3700)}

\* Firings explored per run of the thermal path.
MaxThermalFirings == 4

NextThermal ==
    /\ SamplesSeen < MaxThermalFirings * RAW_BUFFER_SIZE
    /\ \E u \in UpdatesAt(Now, {R(1)}, ThermalTemperatures) : OnMessage(<<u>>)

SpecThermal == Init /\ [][NextThermal]_vars


\* ------------------------------------------------------------------------
\* A fleet of two turbines: batches of zero, one or two updates, for the
\* same turbine or for different ones, all stamped with the batch's time.
\* ------------------------------------------------------------------------

FleetIds == {"T-01", "T-02"}

\* Samples explored per run of the fleet.
MaxFleetSamples == 4

FleetUpdatesAt(t) ==
    [id : FleetIds, timestamp : {R(t)}, vibration : Vibrations, temperature : {R(960)}]

\* The batches of at most two entries over a set of updates.
Batches(updates) ==
    {<<>>} \cup {<<u>> : u \in updates} \cup {<<u, w>> : u \in updates, w \in updates}

BatchIds(batch) == {batch[i].id : i \in 1 .. Len(batch)}

NextFleet ==
    \E batch \in Batches(FleetUpdatesAt(Now)) :
        /\ SamplesSeen + Len(batch) <= MaxFleetSamples
        /\ OnMessage(batch)

SpecFleet == Init /\ [][NextFleet]_vars


\* ------------------------------------------------------------------------
\* The end-to-end scenario: fresh turbines fed samples of amplitude 1.5,
\* one update per batch, at any temperature.
\* ------------------------------------------------------------------------

\* Samples explored per run of the scenario.
MaxScenarioSamples == 6

ScenarioUpdatesAt(t) ==
    [id : FleetIds, timestamp : {R(t)}, vibration : {Q(3, 2)},
     temperature : Temperatures]

NextScenario ==
    /\ SamplesSeen < MaxScenarioSamples
    /\ \E u \in ScenarioUpdatesAt(Now) : OnMessage(<<u>>)

SpecScenario == Init /\ [][NextScenario]_vars


\* ------------------------------------------------------------------------
\* Three runs of one turbine side by side, each under its own key of the
\* registry: a base run, a run that receives the same vibrations at other
\* temperatures, and a run that receives the same temperatures with other
\* vibrations. Every batch carries the next sample of each run.
\* ------------------------------------------------------------------------

\* Samples explored per run.
MaxPathSamples == 6

BaseRun == "base"
OtherTemperatureRun == "otherTemperature"
OtherVibrationRun == "otherVibration"

PathUpdate(id, t, v, c) ==
    [id |-> id, timestamp |-> R(t), vibration |-> v, temperature |-> c]

PathBatchesAt(t) ==
    {<<PathUpdate(BaseRun, t, v, c),
       PathUpdate(OtherTemperatureRun, t, v, c2),
       PathUpdate(OtherVibrationRun, t, v2, c)>> :
         v \in Vibrations, v2 \in Vibrations,
         c \in Temperatures, c2 \in Temperatures}

PathSamples == IF BaseRun \in DOMAIN fleet THEN fleet[BaseRun].vibHead ELSE 0

NextPaths ==
    /\ PathSamples < MaxPathSamples
    /\ \E batch \in PathBatchesAt(PathSamples + 1) : OnMessage(batch)

SpecPaths == Init /\ [][NextPaths]_vars


\* ------------------------------------------------------------------------
\* The amplitude crossing the critical limit and coming back: windows that
\* peak at 10 and at 22.5 bring the EMA from 10 over 11.2 and under it again.
\* ------------------------------------------------------------------------

RecoveryVibrations == {R(10), Q(45, 2)}

\* Firings explored per run of the recovery.
MaxRecoveryFirings == 4

NextRecovery ==
    /\ SamplesSeen < MaxRecoveryFirings * RAW_BUFFER_SIZE
    /\ \E u \in UpdatesAt(Now, RecoveryVibrations, Temperatures) : OnMessage(<<u>>)

SpecRecovery == Init /\ [][NextRecovery]_vars


\* ------------------------------------------------------------------------
\* Batches that carry malformed entries: an entry without id (the key the
\* registry then sees is undefined), one whose vibration is not a number
\* and one whose temperature is not a number.  The handler reads the three
\* fields without a test, so each entry goes through the same loop body.
\* ------------------------------------------------------------------------

Undefined == "undefined"

\* Samples explored per run with malformed entries.
MaxMalformedSamples == 4

WellFormedAt(t) ==
    [id : {"T-01"}, timestamp : {R(t)}, vibration : {R(5)}, temperature : {R(960)}]

MalformedAt(t) ==
    {[id |-> Undefined, timestamp |-> R(t), vibration |-> R(5), temperature |-> R(960)],
     [id |-> "T-01", timestamp |-> R(t), vibration |-> NaN, temperature |-> R(960)],
     [id |-> "T-01", timestamp |-> R(t), vibration |-> R(5), temperature |-> NaN]}

IsMalformed(update) ==
    update.id = Undefined \/ IsNaN(update.vibration) \/ IsNaN(update.temperature)

\* The entries of a batch that are well formed, in their order.
WellFormedOnly(batch) == SelectSeq(batch, LAMBDA u : ~IsMalformed(u))

NextMalformed ==
    \E batch \in Batches(WellFormedAt(Now) \cup MalformedAt(Now)) :
        /\ Len(batch) >= 1
        /\ SamplesSeen + Len(batch) <= MaxMalformedSamples
        /\ OnMessage(batch)

SpecMalformed == Init /\ [][NextMalformed]_vars

\* ------------------------------------------------------------------------
\* The RUL estimators exercised on their own
\* ------------------------------------------------------------------------

RulCurrents == {R(3), Q(7, 2), R(4), R(5), R(11), Q(112, 10), R(12), R(54), R(70)}
RulSlopes == {R(-1), R(0), Q(1, 100), Q(1, 50), Q(1, 20), R(1), R(5)}
RulThresholds == {R(3), Q(112, 10), R(60)}

InitRUL ==
    /\ WorkerInit
    /\ NoProvider
    /\ NoHistorian
    /\ fnArgs \in [current : RulCurrents, slope : RulSlopes, threshold : RulThresholds]
    /\ fnOut = [called |-> FALSE]

\* One call of each estimator on the same arguments.
CallRUL ==
    /\ ~fnOut.called
    /\ fnOut' = [called |-> TRUE,
                 worker |-> calculateRUL(fnArgs.current, fnArgs.slope, fnArgs.threshold),
                 utils  |-> utilsCalculateRUL(fnArgs.current, fnArgs.slope, fnArgs.threshold)]
    /\ UNCHANGED <<fnArgs, workerVars, histVars, mainVars>>

SpecRUL == InitRUL /\ [][CallRUL]_vars

\* ------------------------------------------------------------------------
\* The RUL filter of a fresh turbine fed raw RULs directly
\* ------------------------------------------------------------------------

\* Raw RULs fed per run.
MaxFeeds == 5

RawRuls == {R(0), R(10), R(20), R(50), Sentinel}

InitFilter ==
    /\ WorkerInit
    /\ NoProvider
    /\ NoHistorian
    /\ fnArgs = <<>>
    /\ fnOut = [rulBuffer   |-> NewTurbineState.rulBuffer,
                rulHead     |-> NewTurbineState.rulHead,
                smoothedRul |-> NewTurbineState.currentPdM.estimatedRUL]

\* One firing's filter step on the raw RUL given; fnArgs keeps the raw RULs
\* fed so far.
FeedRul(rawRul) ==
    /\ Len(fnArgs) < MaxFeeds
    /\ fnArgs' = Append(fnArgs, rawRul)
    /\ fnOut' = RulFilter(fnOut.rulBuffer, fnOut.rulHead, rawRul)
    /\ UNCHANGED <<workerVars, histVars, mainVars>>

NextFilter == \E rawRul \in RawRuls : FeedRul(rawRul)

SpecFilter == InitFilter /\ [][NextFilter]_vars

\* ------------------------------------------------------------------------
\* The smoother: called on its own, or run inside the worker
\* ------------------------------------------------------------------------

EmaCurrents == {R(-3), R(0), Q(3, 2), R(960)}
EmaPrevious == {Null, R(0), R(10), R(-7)}
EmaAlphas == {R(0), Q(1, 20), Q(1, 10), Q(1, 2), R(1)}

\* The arguments of a direct call, or none: the run is one of the worker.
InitEMA ==
    /\ WorkerInit
    /\ NoProvider
    /\ NoHistorian
    /\ fnArgs \in {<<>>} \cup (EmaCurrents \X EmaPrevious \X EmaAlphas)
    /\ fnOut = <<>>

\* calculateEMA(current, previous, alpha) on the arguments drawn.
CallEMA ==
    /\ fnArgs # <<>>
    /\ fnOut = <<>>
    /\ fnOut' = <<calculateEMA(fnArgs[1], fnArgs[2], fnArgs[3])>>
    /\ UNCHANGED <<fnArgs, workerVars, histVars, mainVars>>

NextEMA ==
    \/ CallEMA
    \/ fnArgs = <<>> /\ Next

SpecEMA == InitEMA /\ [][NextEMA]_vars


\* ------------------------------------------------------------------------
\* IEEE 754 binary64, the JS number type, bit for bit
\* ------------------------------------------------------------------------

\* Naturals of any size: little-endian sequences of limbs in 0 .. LIMB - 1
\* without a leading zero limb (<<>> is 0).  LIMB is 2^15 and LIMB_BITS 15,
\* so that a product of two limbs plus a carry stays within 32 bits.
LIMB == 32768
LIMB_BITS == 15

\* Bits of the significand of a binary64 number.
SIGNIFICAND_BITS == 53

RECURSIVE Pow2(_)
Pow2(k) == IF k = 0 THEN 1 ELSE 2 * Pow2(k - 1)

RECURSIVE BigOf(_)
BigOf(i) == IF i = 0 THEN <<>> ELSE <<i % LIMB>> \o BigOf(i \div LIMB)

RECURSIVE BigTrim(_)
BigTrim(a) ==
    IF Len(a) = 0 THEN <<>>
    ELSE IF a[Len(a)] = 0 THEN BigTrim(SubSeq(a, 1, Len(a) - 1))
    ELSE a

Limb(a, i) == IF i <= Len(a) THEN a[i] ELSE 0

RECURSIVE BigAddFrom(_, _, _, _)
BigAddFrom(a, b, i, carry) ==
    IF i > Len(a) /\ i > Len(b)
    THEN (IF carry = 0 THEN <<>> ELSE <<carry>>)
    ELSE <<(Limb(a, i) + Limb(b, i) + carry) % LIMB>>
         \o BigAddFrom(a, b, i + 1, (Limb(a, i) + Limb(b, i) + carry) \div LIMB)

BigAdd(a, b) == BigAddFrom(a, b, 1, 0)

\* a - b for a >= b
RECURSIVE BigSubFrom(_, _, _, _)
BigSubFrom(a, b, i, borrow) ==
    IF i > Len(a) THEN <<>>
    ELSE <<(a[i] - Limb(b, i) - borrow + LIMB) % LIMB>>
         \o BigSubFrom(a, b, i + 1, IF a[i] - Limb(b, i) - borrow < 0 THEN 1 ELSE 0)

BigSub(a, b) == BigTrim(BigSubFrom(a, b, 1, 0))

RECURSIVE BigCmpFrom(_, _, _)
BigCmpFrom(a, b, i) ==
    IF i = 0 THEN 0
    ELSE IF a[i] < b[i] THEN -1
    ELSE IF a[i] > b[i] THEN 1
    ELSE BigCmpFrom(a, b, i - 1)

\* -1, 0 or 1 as a < b, a = b or a > b
BigCmp(a, b) ==
    IF Len(a) < Len(b) THEN -1
    ELSE IF Len(a) > Len(b) THEN 1
    ELSE BigCmpFrom(a, b, Len(a))

\* a * k for 0 <= k < LIMB
RECURSIVE BigMulSmallFrom(_, _, _, _)
BigMulSmallFrom(a, k, i, carry) ==
    IF i > Len(a) THEN (IF carry = 0 THEN <<>> ELSE <<carry>>)
    ELSE <<(a[i] * k + carry) % LIMB>>
         \o BigMulSmallFrom(a, k, i + 1, (a[i] * k + carry) \div LIMB)

BigMulSmall(a, k) == BigTrim(BigMulSmallFrom(a, k, 1, 0))

\* a * LIMB^n
BigShiftLimbs(a, n) ==
    IF Len(a) = 0 THEN <<>> ELSE [i \in 1 .. n |-> 0] \o a

RECURSIVE BigMulFrom(_, _, _)
BigMulFrom(a, b, i) ==
    IF i > Len(b) THEN <<>>
    ELSE BigAdd(BigMulSmall(a, b[i]), BigShiftLimbs(BigMulFrom(a, b, i + 1), 1))

BigMul(a, b) == BigMulFrom(a, b, 1)

\* a * 2^k
BigShl(a, k) ==
    BigShiftLimbs(BigMulSmall(a, Pow2(k % LIMB_BITS)), k \div LIMB_BITS)

\* floor(x / 2^r) for 0 <= r < LIMB_BITS
BigShrBits(x, r) ==
    BigTrim([i \in 1 .. Len(x) |->
                (x[i] \div Pow2(r)) + (Limb(x, i + 1) % Pow2(r)) * Pow2(LIMB_BITS - r)])

\* floor(a / 2^k)
BigShr(a, k) ==
    IF k \div LIMB_BITS >= Len(a) THEN <<>>
    ELSE BigShrBits(SubSeq(a, k \div LIMB_BITS + 1, Len(a)), k % LIMB_BITS)

RECURSIVE SmallBitLen(_)
SmallBitLen(v) == IF v = 0 THEN 0 ELSE 1 + SmallBitLen(v \div 2)

\* Number of bits of a (0 for 0)
BitLen(a) ==
    IF Len(a) = 0 THEN 0
    ELSE LIMB_BITS * (Len(a) - 1) + SmallBitLen(a[Len(a)])

\* Bit i of a, bit 0 the lowest
Bit(a, i) == (Limb(a, i \div LIMB_BITS + 1) \div Pow2(i % LIMB_BITS)) % 2

\* Number of zero bits below the lowest set bit of a # 0, counted from i
RECURSIVE TrailingZeros(_, _)
TrailingZeros(a, i) == IF Bit(a, i) = 1 THEN i ELSE TrailingZeros(a, i + 1)

\* The largest d < LIMB with d * b <= r (for r < LIMB * b), found bit by bit
\* from the highest.
RECURSIVE BigDigit(_, _, _, _)
BigDigit(b, r, bit, d) ==
    IF bit < 0 THEN d
    ELSE IF BigCmp(BigMulSmall(b, d + Pow2(bit)), r) <= 0
    THEN BigDigit(b, r, bit - 1, d + Pow2(bit))
    ELSE BigDigit(b, r, bit - 1, d)

\* Long division by b, one limb of a at a time from the highest: q is the
\* quotient and r the remainder of the limbs above i.
RECURSIVE BigDivFrom(_, _, _, _, _)
BigDivLimb(a, b, i, q, r, d) ==
    BigDivFrom(a, b, i - 1,
               BigAdd(BigShiftLimbs(q, 1), BigOf(d)),
               BigSub(r, BigMulSmall(b, d)))

BigDivWith(a, b, i, q, r) ==
    BigDivLimb(a, b, i, q, r, BigDigit(b, r, LIMB_BITS - 1, 0))

BigDivFrom(a, b, i, q, r) ==
    IF i = 0 THEN [q |-> q, r |-> r]
    ELSE BigDivWith(a, b, i, q, BigAdd(BigShiftLimbs(r, 1), BigOf(a[i])))

\* Quotient and remainder of a by b # 0
BigDivMod(a, b) == BigDivFrom(a, b, Len(a), <<>>, <<>>)

\* A finite binary64 number is sign * m * 2^e with m odd (or m = 0, the
\* zero), m < 2^53.  The exponent range of binary64 (2^-1074 .. 2^1023) is
\* never approached by the values below and is not modelled; -0 is not
\* told from 0 (the code only compares it with 0).
FZero == [sign |-> 1, m |-> <<>>, e |-> 0]

FCanonShift(sign, M, E, tz) == [sign |-> sign, m |-> BigShr(M, tz), e |-> E + tz]

\* sign * M * 2^E for M < 2^53, in the canonical form
FCanon(sign, M, E) ==
    IF Len(M) = 0 THEN FZero ELSE FCanonShift(sign, M, E, TrailingZeros(M, 0))

\* Round to nearest, ties to even: q is M without its low bits and cmp
\* compares the bits dropped with one half.
FRoundUp(sign, q, cmp, E) ==
    FCanon(sign,
           IF cmp > 0 \/ (cmp = 0 /\ q[1] % 2 = 1) THEN BigAdd(q, <<1>>) ELSE q,
           E)

FRoundQ(sign, M, E, sh, q) ==
    FRoundUp(sign, q,
             BigCmp(BigSub(M, BigShl(q, sh)), BigShl(<<1>>, sh - 1)),
             E + sh)

\* The binary64 number nearest to sign * M * 2^E
FRound(sign, M, E) ==
    IF BitLen(M) <= SIGNIFICAND_BITS THEN FCanon(sign, M, E)
    ELSE FRoundQ(sign, M, E, BitLen(M) - SIGNIFICAND_BITS,
                 BigShr(M, BitLen(M) - SIGNIFICAND_BITS))

\* The binary64 number of an integer literal
F(i) == FCanon(IF i < 0 THEN -1 ELSE 1, BigOf(IF i < 0 THEN -i ELSE i), 0)

FIsZero(a) == Len(a.m) = 0

FNeg(a) == IF FIsZero(a) THEN a ELSE [a EXCEPT !.sign = -a.sign]

FSubMag(sa, A, sb, B, e, cmp) ==
    IF cmp = 0 THEN FZero
    ELSE IF cmp > 0 THEN FRound(sa, BigSub(A, B), e)
    ELSE FRound(sb, BigSub(B, A), e)

FAddAligned(sa, A, sb, B, e) ==
    IF sa = sb THEN FRound(sa, BigAdd(A, B), e)
    ELSE FSubMag(sa, A, sb, B, e, BigCmp(A, B))

FAddAt(a, b, e) ==
    FAddAligned(a.sign, BigShl(a.m, a.e - e), b.sign, BigShl(b.m, b.e - e), e)

\* a + b
FAdd(a, b) ==
    IF FIsZero(a) THEN b
    ELSE IF FIsZero(b) THEN a
    ELSE FAddAt(a, b, IF a.e < b.e THEN a.e ELSE b.e)

\* a - b
FSub(a, b) == FAdd(a, FNeg(b))

\* a * b
FMul(a, b) ==
    IF FIsZero(a) \/ FIsZero(b) THEN FZero
    ELSE FRound(a.sign * b.sign, BigMul(a.m, b.m), a.e + b.e)

\* The quotient carries at least two bits more than the significand and a
\* sticky bit for a remainder that is not zero.
FDivSticky(sign, qr, E) ==
    FRound(sign,
           BigAdd(BigAdd(qr.q, qr.q), IF Len(qr.r) = 0 THEN <<>> ELSE <<1>>),
           E - 1)

FDivAt(a, b, k) ==
    FDivSticky(a.sign * b.sign, BigDivMod(BigShl(a.m, k), b.m), a.e - b.e - k)

\* a / b for b # 0
FDiv(a, b) ==
    IF FIsZero(a) THEN FZero
    ELSE FDivAt(a, b, SIGNIFICAND_BITS + 2 + BitLen(b.m))

\* ------------------------------------------------------------------------
\* The regression in binary64
\* ------------------------------------------------------------------------

\* Sum of f[(start + i) % capacity] for i in 0 .. k-1, accumulated from 0 in
\* that order, each addition rounded.
RECURSIVE RingSumF64(_, _, _, _)
RingSumF64(f, start, k, capacity) ==
    IF k = 0 THEN FZero
    ELSE FAdd(RingSumF64(f, start, k - 1, capacity), f[(start + k - 1) % capacity])

\* return den === 0 ? 0 : num / den
RegressionSlope(num, den) == IF FIsZero(den) THEN FZero ELSE FDiv(num, den)

\* num = sumXY - (n * xMean * yMean), den = sumX2 - (n * xMean * xMean)
RegressionOfMeans(n, sumXY, sumX2, xMean, yMean) ==
    RegressionSlope(FSub(sumXY, FMul(FMul(n, xMean), yMean)),
                    FSub(sumX2, FMul(FMul(n, xMean), xMean)))

\* xMean = sumX / n, yMean = sumY / n
RegressionOfSums(n, sumX, sumY, sumXY, sumX2) ==
    RegressionOfMeans(n, sumXY, sumX2, FDiv(sumX, n), FDiv(sumY, n))

RegressionLoop(xBuf, yBuf, start, count, capacity) ==
    RegressionOfSums(F(count),
                     RingSumF64(xBuf, start, count, capacity),
                     RingSumF64(yBuf, start, count, capacity),
                     RingSumF64([i \in DOMAIN xBuf |-> FMul(xBuf[i], yBuf[i])],
                                start, count, capacity),
                     RingSumF64([i \in DOMAIN xBuf |-> FMul(xBuf[i], xBuf[i])],
                                start, count, capacity))

\* calculateLinearRegressionTyped(xBuf, yBuf, head, count, capacity), every
\* operation rounded as the JS engine rounds it.
calculateLinearRegressionTypedF64(xBuf, yBuf, head, count, capacity) ==
    IF count < 2 THEN FZero
    ELSE RegressionLoop(xBuf, yBuf, (head - count + capacity) % capacity,
                        count, capacity)

\* The exported calculateLinearRegression(dataPoints) of utils: dataPoints
\* is a sequence of <<x, y>>, summed from index 0.
calculateLinearRegressionF64(dataPoints) ==
    IF Len(dataPoints) < 2 THEN FZero
    ELSE RegressionLoop([i \in 0 .. Len(dataPoints) - 1 |-> dataPoints[i + 1][1]],
                        [i \in 0 .. Len(dataPoints) - 1 |-> dataPoints[i + 1][2]],
                        0, Len(dataPoints), Len(dataPoints))

\* Trend points pushed per run of the regression.
MaxTrendPushes == 6

\* A Date.now() in milliseconds, 1730000000123, and the timestamp the main
\* thread derives from it: p.t / 1000.
DateNowMs == BigAdd(BigMul(BigOf(1730000000), BigOf(1000)), BigOf(123))
TimestampOf(t) == FDiv(FCanon(1, t, 0), F(1000))

\* First x of a run: 0, 0.1, 1000, a whole epoch second and an epoch
\* timestamp with milliseconds.
RegressionOrigins ==
    {F(0), FDiv(F(1), F(10)), F(1000), F(1730000000), TimestampOf(DateNowMs)}
\* Spacing of the x values: 0 (all identical) or 1 (one second apart).
RegressionSteps == {0, 1}
\* Slope of the y values per push.
RegressionSlopes == {0, 1, 3}

\* An empty trend ring of binary64 slots.
NewTrendF64 ==
    [trendTsBuffer  |-> [i \in 0 .. BUFFER_SIZE - 1 |-> FZero],
     trendEmaBuffer |-> [i \in 0 .. BUFFER_SIZE - 1 |-> FZero],
     trendHead      |-> 0,
     trendCount     |-> 0]

\* The ring after pushes j .. n of the run: push j is the point
\* (x0 + step * j, 4 + b * j).
RECURSIVE PushTrends(_, _, _, _, _, _)
PushTrends(state, x0, step, b, j, n) ==
    IF j > n THEN state
    ELSE PushTrends(pushTrend(state, FAdd(x0, F(step * j)), F(4 + b * j)),
                    x0, step, b, j + 1, n)

RegressionInput(x0, step, b, n) ==
    [x0 |-> x0, step |-> step, b |-> b,
     trend |-> PushTrends(NewTrendF64, x0, step, b, 1, n)]

\* The points of a trend ring, oldest first.
TrendPoints(t) ==
    [i \in 1 .. t.trendCount |->
        <<t.trendTsBuffer[(t.trendHead - t.trendCount + i - 1) % BUFFER_SIZE],
          t.trendEmaBuffer[(t.trendHead - t.trendCount + i - 1) % BUFFER_SIZE]>>]

InitRegression ==
    /\ WorkerInit
    /\ NoProvider
    /\ NoHistorian
    /\ fnArgs \in {RegressionInput(x0, step, b, n) :
                      x0 \in RegressionOrigins, step \in RegressionSteps,
                      b \in RegressionSlopes, n \in 0 .. MaxTrendPushes}
    /\ fnOut = [called |-> FALSE]

\* One call of each regression on the same points.
CallRegression ==
    /\ ~fnOut.called
    /\ fnOut' = [called |-> TRUE,
                 typed  |-> calculateLinearRegressionTypedF64(
                                fnArgs.trend.trendTsBuffer, fnArgs.trend.trendEmaBuffer,
                                fnArgs.trend.trendHead, fnArgs.trend.trendCount,
                                BUFFER_SIZE),
                 utils  |-> calculateLinearRegressionF64(TrendPoints(fnArgs.trend))]
    /\ UNCHANGED <<fnArgs, workerVars, histVars, mainVars>>

SpecRegression == InitRegression /\ [][CallRegression]_vars


\* ------------------------------------------------------------------------
\* The worker's calculateRUL in binary64
\* ------------------------------------------------------------------------

FCmpAligned(sa, A, sb, B) == IF sa # sb THEN sa ELSE sa * BigCmp(A, B)

FCmpAt(a, b, e) ==
    FCmpAligned(a.sign, BigShl(a.m, a.e - e), b.sign, BigShl(b.m, b.e - e))

\* -1, 0 or 1 as a < b, a = b or a > b
FCmp(a, b) == FCmpAt(a, b, IF a.e < b.e THEN a.e ELSE b.e)

FLt(a, b) == FCmp(a, b) < 0
FLe(a, b) == FCmp(a, b) <= 0
FGe(a, b) == FCmp(a, b) >= 0
FGt(a, b) == FCmp(a, b) > 0

\* The literals 4.0, 0.01, 120 and 999 of calculateRUL and VIB_LIMITS.critical
\* = 11.2, each the binary64 number nearest to the decimal.
NoiseFloorF64 == F(4)
MinSlopeF64 == FDiv(F(1), F(100))
HorizonCapF64 == F(120)
SentinelF64 == F(999)
VibCriticalF64 == FDiv(F(112), F(10))

\* return rul > 120 ? 999 : rul
RulCapF64(rul) == IF FGt(rul, HorizonCapF64) THEN SentinelF64 ELSE rul

\* calculateRUL projecting from the gap taken the wrong way round.
calculateRULF64_reversedGap(current, slope, threshold) ==
    IF FGe(current, threshold) THEN F(0)
    ELSE IF FLt(current, NoiseFloorF64) THEN SentinelF64
    ELSE IF FLe(slope, MinSlopeF64) THEN SentinelF64
    ELSE RulCapF64(FDiv(FSub(current, threshold), slope))

\* calculateRUL(current, slope, threshold), every operation rounded as the
\* JS engine rounds it.
calculateRULF64(current, slope, threshold) ==
    IF FGe(current, threshold) THEN F(0)
    ELSE IF FLt(current, NoiseFloorF64) THEN SentinelF64
    ELSE IF FLe(slope, MinSlopeF64) THEN SentinelF64
    ELSE RulCapF64(FDiv(FSub(threshold, current), slope))

\* Currents on both sides of the noise floor and of the threshold, and two
\* neighbouring binary64 numbers: 5 and the next one up, 5 + 2^-50.
RulCurrentsF64 ==
    {F(3), FDiv(F(7), F(2)), F(4), F(5), FAdd(F(5), FCanon(1, <<1>>, -50)),
     F(8), F(11), VibCriticalF64, F(12)}
RulSlopesF64 ==
    {F(-1), F(0), MinSlopeF64, FDiv(F(1), F(50)), FDiv(F(3), F(10)), F(1), F(5)}
RulThresholdsF64 == {VibCriticalF64, F(60)}

InitRULF64 ==
    /\ WorkerInit
    /\ NoProvider
    /\ NoHistorian
    /\ fnArgs \in [current : RulCurrentsF64, slope : RulSlopesF64,
                   threshold : RulThresholdsF64]
    /\ fnOut = [called |-> FALSE]

\* One call of calculateRUL on the arguments drawn.
CallRULF64 ==
    /\ ~fnOut.called
    /\ fnOut' = [called |-> TRUE,
                 rul    |-> calculateRULF64(fnArgs.current, fnArgs.slope,
                                            fnArgs.threshold)]
    /\ UNCHANGED <<fnArgs, workerVars, histVars, mainVars>>

SpecRULF64 == InitRULF64 /\ [][CallRULF64]_vars

\* ------------------------------------------------------------------------
\* TelemetryHistorian (client/src/utils/Historian.ts)
\* ------------------------------------------------------------------------

\* The null of an unwritten buffer slot.
NullEntry == [null |-> TRUE]

\* The ids the constructor pre-creates.
PreCreated == {"T-01", "T-02", "T-03"}

\* The ring ensureTurbine creates: size null slots, head 0, count 0.
NewRing(size) ==
    [buffer |-> [i \in 0 .. size - 1 |-> NullEntry], head |-> 0, count |-> 0]

\* ensureTurbine(id): the map after the creation on first use.
ensureTurbine(hf, size, id) ==
    IF id \in DOMAIN hf THEN hf ELSE MapPut(hf, id, NewRing(size))

\* new TelemetryHistorian(size): the map after the constructor.
NewHistorian(size) == [id \in PreCreated |-> NewRing(size)]

\* add advancing the head without wrapping it.
add_noWrap(hf, size, payload) ==
    LET hf1    == ensureTurbine(hf, size, payload.id)
        tState == hf1[payload.id]
    IN  [hf1 EXCEPT ![payload.id] =
            [buffer |-> [tState.buffer EXCEPT ![tState.head] = payload],
             head   |-> tState.head + 1,
             count  |-> IF tState.count < size THEN tState.count + 1
                        ELSE tState.count]]

\* add(payload): the map after the write.
add(hf, size, payload) ==
    LET hf1    == ensureTurbine(hf, size, payload.id)
        tState == hf1[payload.id]
    IN  [hf1 EXCEPT ![payload.id] =
            [buffer |-> [tState.buffer EXCEPT ![tState.head] = payload],
             head   |-> (tState.head + 1) % size,
             count  |-> IF tState.count < size THEN tState.count + 1
                        ELSE tState.count]]

\* getLength(id)
getLength(hf, id) == IF id \in DOMAIN hf THEN hf[id].count ELSE 0

Min(a, b) == IF a < b THEN a ELSE b

\* The loop of getRecent: the non-null entries at (from + i) % size for
\* i in 0 .. k-1, in that order.
RECURSIVE Collect(_, _, _, _)
Collect(buffer, from, k, size) ==
    IF k = 0 THEN <<>>
    ELSE LET entry == buffer[(from + k - 1) % size]
             rest  == Collect(buffer, from, k - 1, size)
         IN  IF entry # NullEntry THEN Append(rest, entry) ELSE rest

\* getRecent reading from index 0 whether or not the ring has wrapped.
getRecent_fromZero(hf, size, id, maxCount) ==
    IF id \notin DOMAIN hf \/ hf[id].count = 0 THEN <<>>
    ELSE LET tState     == hf[id]
             total      == tState.count
             fetchCount == Min(total, maxCount)
             fetchStart == total - fetchCount
         IN  Collect(tState.buffer, fetchStart, fetchCount, size)

\* getRecent(id, maxCount)
getRecent(hf, size, id, maxCount) ==
    IF id \notin DOMAIN hf \/ hf[id].count = 0 THEN <<>>
    ELSE LET tState     == hf[id]
             start      == IF tState.count < size THEN 0 ELSE tState.head
             total      == tState.count
             fetchCount == Min(total, maxCount)
             fetchStart == total - fetchCount
         IN  Collect(tState.buffer, start + fetchStart, fetchCount, size)

\* Largest capacity and number of add() calls explored.
MaxCapacity == 5
MaxAdds == 7

\* Ids written to: one the constructor pre-creates, one it does not.
HistIds == {"T-01", "T-09"}
\* Ids read: those, and a pre-created id that is never written.
QueryIds == HistIds \cup {"T-02"}
MaxCounts == 0 .. MaxCapacity + 1

RECURSIVE SumLens(_, _)
SumLens(f, ids) ==
    IF ids = {} THEN 0
    ELSE LET id == CHOOSE x \in ids : TRUE
         IN  Len(f[id]) + SumLens(f, ids \ {id})

\* add() calls made so far.
Adds == SumLens(added, DOMAIN added)

\* The n-th payload of the run, for turbine id: amplitude n at time n.
Payload(id, n) ==
    [id |-> id, t |-> R(n), r |-> R(3600), v |-> R(n), c |-> R(900)]

InitHist ==
    /\ WorkerInit
    /\ NoProvider
    /\ hsize \in 1 .. MaxCapacity
    /\ hfleet = NewHistorian(hsize)
    /\ added = [id \in QueryIds |-> <<>>]
    /\ fnArgs = [op |-> "new"]
    /\ fnOut = Null

\* historian.add(payload)
Add(payload) ==
    /\ Adds < MaxAdds
    /\ hfleet' = add(hfleet, hsize, payload)
    /\ added' = [added EXCEPT ![payload.id] = Append(@, payload)]
    /\ fnArgs' = [op |-> "add"]
    /\ fnOut' = Null
    /\ UNCHANGED <<hsize, workerVars, mainVars>>

\* historian.getRecent(id, maxCount)
GetRecent(id, maxCount) ==
    /\ fnArgs' = [op |-> "getRecent", id |-> id, maxCount |-> maxCount]
    /\ fnOut' = getRecent(hfleet, hsize, id, maxCount)
    /\ UNCHANGED <<histVars, workerVars, mainVars>>

NextHist ==
    \/ \E id \in HistIds : Add(Payload(id, Adds + 1))
    \/ \E id \in QueryIds, maxCount \in MaxCounts : GetRecent(id, maxCount)

SpecHist == InitHist /\ [][NextHist]_vars


\* ------------------------------------------------------------------------
\* exportCSV and the other reads of the Historian
\* ------------------------------------------------------------------------

\* x.toFixed(2): the decimal with two fraction digits nearest to x, the
\* larger magnitude on a tie; kept as its sign and its number of hundredths.
ToFixed2(x) ==
    LET n == Abs(x[1])
        d == x[2]
    IN  [negative |-> x[1] < 0, hundredths |-> (200 * n + d) \div (2 * d)]

\* new Date(t).toISOString(): the instant t milliseconds after the epoch,
\* fractions of a millisecond dropped.
ToISOString(t) ==
    [iso |-> IF t[1] < 0 THEN -(Abs(t[1]) \div t[2]) ELSE t[1] \div t[2]]

\* The two limits exportCSV compares |entry.v| with.
ExportCritical == R(12)
ExportWarning == R(7)

\* The condition label of one entry.
Condition(entry) ==
    LET absVib == RAbs(entry.v)
    IN  IF RGe(absVib, ExportCritical) THEN "CRITICAL"
        ELSE IF RGe(absVib, ExportWarning) THEN "WARNING"
        ELSE "NOMINAL"

\* One data row: the fields joined by commas, in this order.
CsvRow(entry) ==
    [row |-> <<ToISOString(entry.t), ToFixed2(entry.r), ToFixed2(entry.v),
               ToFixed2(entry.c), Condition(entry)>>]

\* The four lines every export starts with.
CsvHeader(turbineId) ==
    <<[text |-> "# OmniStream Incident Report"],
      [text |-> "# Turbine: ", id |-> turbineId],
      [text |-> "# Limits: Vib >= 12.0 (CRITICAL), Vib >= 7.0 (WARNING)"],
      [text |-> "timestamp_iso,rpm,vibration_mms,temperature_c,condition"]>>

\* The loop of exportCSV: a row for each non-null entry at
\* (start + i) % size, i in 0 .. k-1.
RECURSIVE CsvRows(_, _, _, _)
CsvRows(buffer, start, k, size) ==
    IF k = 0 THEN <<>>
    ELSE LET entry == buffer[(start + k - 1) % size]
             rest  == CsvRows(buffer, start, k - 1, size)
         IN  IF entry # NullEntry THEN Append(rest, CsvRow(entry)) ELSE rest

\* exportCSV without its early return: an empty ring is exported too.
exportCSV_noGuard(hf, size, turbineId) ==
    IF turbineId \notin DOMAIN hf THEN CsvHeader(turbineId)
    ELSE LET tState == hf[turbineId]
             start  == IF tState.count < size THEN 0 ELSE tState.head
         IN  CsvHeader(turbineId) \o CsvRows(tState.buffer, start, tState.count, size)

\* exportCSV reading from index 0 whether or not the ring has wrapped.
exportCSV_fromZero(hf, size, turbineId) ==
    IF turbineId \notin DOMAIN hf \/ hf[turbineId].count = 0 THEN <<>>
    ELSE LET tState == hf[turbineId]
         IN  CsvHeader(turbineId) \o CsvRows(tState.buffer, 0, tState.count, size)

\* exportCSV(turbineId): the lines of the file it offers for download;
\* no line when it returns without a download.
exportCSV(hf, size, turbineId) ==
    IF turbineId \notin DOMAIN hf \/ hf[turbineId].count = 0 THEN <<>>
    ELSE LET tState == hf[turbineId]
             start  == IF tState.count < size THEN 0 ELSE tState.head
         IN  CsvHeader(turbineId) \o CsvRows(tState.buffer, start, tState.count, size)

\* Largest capacity and number of add() calls explored with exports.
MaxExportCapacity == 3
MaxExportAdds == 3

\* Amplitudes on both sides of the limits, some of them negative.
ExportAmplitudes == {R(3), R(7), Q(115, 10), R(-12)}

\* Ids read: a written pre-created id, a written new id, a pre-created id
\* that is never written and an id the Historian never sees.
ExportIds == {"T-01", "T-09", "T-02", "T-77"}

ExportPayload(id, n, v) ==
    [id |-> id, t |-> R(n), r |-> R(3600), v |-> v, c |-> R(900)]

InitExport ==
    /\ WorkerInit
    /\ NoProvider
    /\ hsize \in 1 .. MaxExportCapacity
    /\ hfleet = NewHistorian(hsize)
    /\ added = [id \in ExportIds |-> <<>>]
    /\ fnArgs = [op |-> "new"]
    /\ fnOut = Null

\* historian.getLength(id)
GetLength(id) ==
    /\ fnArgs' = [op |-> "getLength", id |-> id]
    /\ fnOut' = getLength(hfleet, id)
    /\ UNCHANGED <<histVars, workerVars, mainVars>>

\* historian.exportCSV(id)
ExportCSV(id) ==
    /\ fnArgs' = [op |-> "exportCSV", id |-> id]
    /\ fnOut' = exportCSV(hfleet, hsize, id)
    /\ UNCHANGED <<histVars, workerVars, mainVars>>

NextExport ==
    \/ /\ Adds < MaxExportAdds
       /\ \E id \in HistIds, v \in ExportAmplitudes : Add(ExportPayload(id, Adds + 1, v))
    \/ \E id \in ExportIds : GetLength(id)
    \/ \E id \in ExportIds : ExportCSV(id)
    \/ \E id \in ExportIds, maxCount \in {0, MaxExportCapacity} : GetRecent(id, maxCount)

SpecExport == InitExport /\ [][NextExport]_vars


\* ------------------------------------------------------------------------
\* The main thread (App): the simulation worker's message handler, the
\* data-stale watchdog, the turbine selection, and the PdM worker behind its
\* message queue.  Time is Date.now() in ms and advances in steps of the UI
\* throttle's 500 ms; the interval callback runs when it is due.
\* ------------------------------------------------------------------------

RenderThrottleMs == 500
WatchdogPeriodMs == 1000
StaleAfterMs == 2000

\* Capacity of the provider's Historian (3000 in the source), scaled.
ProviderCapacity == 2

\* Clock steps and simulator messages explored per run.
MaxTicks == 7
MaxSimMessages == 2

\* Date.now() when the provider mounts.
MountMs == WatchdogPeriodMs

Selections == {"OVERVIEW", "T-01"}

\* The n-th payload of the run, produced at time t for turbine id.
SimPayload(id, n, t) ==
    [id |-> id, t |-> R(t), r |-> R(3600), v |-> R(n), c |-> R(900)]

\* The arrays the simulator can send as its message number k at time t,
\* payloads numbered through the run: one payload of the turbine that is
\* never selected, two payloads of one turbine, or one of each turbine.
SimMessagesAt(k, t) ==
    {<<SimPayload("T-02", 2 * k - 1, t)>>,
     <<SimPayload("T-01", 2 * k - 1, t), SimPayload("T-01", 2 * k, t)>>,
     <<SimPayload("T-01", 2 * k - 1, t), SimPayload("T-02", 2 * k, t)>>}

\* { id: p.id, timestamp: p.t / 1000, vibration: p.v, temperature: p.c }
WorkerUpdateOf(p) ==
    [id |-> p.id, timestamp |-> RDiv(p.t, R(1000)), vibration |-> p.v,
     temperature |-> p.c]

\* workerUpdates built with unshift: the array in reverse order.
WorkerUpdates_unshift(payloadArray) ==
    [i \in 1 .. Len(payloadArray) |->
        WorkerUpdateOf(payloadArray[Len(payloadArray) + 1 - i])]

\* workerUpdates after the loop over payloadArray.
WorkerUpdates(payloadArray) ==
    [i \in 1 .. Len(payloadArray) |-> WorkerUpdateOf(payloadArray[i])]

\* The Historian after historianRef.current.add(p) for the payloads from i on.
RECURSIVE AddAll(_, _, _, _)
AddAll(hf, size, payloadArray, i) ==
    IF i > Len(payloadArray) THEN hf
    ELSE AddAll(add(hf, size, payloadArray[i]), size, payloadArray, i + 1)

\* The record of those calls.
RECURSIVE AddedAll(_, _, _)
AddedAll(ad, payloadArray, i) ==
    IF i > Len(payloadArray) THEN ad
    ELSE AddedAll([ad EXCEPT ![payloadArray[i].id] = Append(@, payloadArray[i])],
                  payloadArray, i + 1)

\* The status a simulator message leaves, with no way back from STALE.
StatusAfterMessage_keepsStale(status) == status

\* The status a simulator message leaves: "If we were STALE, we're back".
StatusAfterMessage(status) ==
    IF status = "STALE" THEN "CONNECTED" ELSE status

\* The throttle lets the React state be published: in a turbine's view only
\* when the array holds a payload of the selected turbine.
Renders(payloadArray) ==
    /\ now - lastPayloadRender > RenderThrottleMs
    /\ \/ selectedTurbineRef = "OVERVIEW"
       \/ \E i \in 1 .. Len(payloadArray) : payloadArray[i].id = selectedTurbineRef

\* simWorker.onmessage
SimOnMessage(payloadArray) ==
    /\ Len(received) < MaxSimMessages
    /\ lastSeenRef' = now
    /\ connStatus' = StatusAfterMessage(connStatusRef)
    /\ connStatusRef' = StatusAfterMessage(connStatusRef)
    /\ hfleet' = AddAll(hfleet, hsize, payloadArray, 1)
    /\ added' = AddedAll(added, payloadArray, 1)
    /\ inbox' = Append(inbox, WorkerUpdates(payloadArray))
    /\ IF Renders(payloadArray)
       THEN fleetTelemetry' = payloadArray /\ lastPayloadRender' = now
       ELSE UNCHANGED <<fleetTelemetry, lastPayloadRender>>
    /\ received' = Append(received, payloadArray)
    /\ UNCHANGED <<now, watchdogDue, selectedTurbineRef, handled, hsize,
                   workerVars, fnVars>>

\* The PdM worker's self.onmessage on the oldest message of its queue.
PdmOnMessage ==
    /\ inbox # <<>>
    /\ PostMessage(ProcessBatch([fleet |-> fleet, responseMap |-> EmptyMap,
                                 probe |-> probe], Head(inbox), 1))
    /\ inbox' = Tail(inbox)
    /\ handled' = Append(handled, Head(inbox))
    /\ UNCHANGED <<now, lastSeenRef, connStatus, connStatusRef, watchdogDue,
                   selectedTurbineRef, lastPayloadRender, fleetTelemetry,
                   received, histVars, fnVars>>

\* The watchdog's test, with the watchdog's period as its limit.
DataStale_afterPeriod ==
    connStatusRef = "CONNECTED" /\ now - lastSeenRef > WatchdogPeriodMs

\* The watchdog's test.
DataStale ==
    connStatusRef = "CONNECTED" /\ now - lastSeenRef > StaleAfterMs

\* The setInterval callback, run when it is due.
Watchdog ==
    /\ now = watchdogDue
    /\ watchdogDue' = watchdogDue + WatchdogPeriodMs
    /\ IF DataStale
       THEN connStatus' = "STALE" /\ connStatusRef' = "STALE"
       ELSE UNCHANGED <<connStatus, connStatusRef>>
    /\ UNCHANGED <<now, lastSeenRef, selectedTurbineRef, lastPayloadRender,
                   fleetTelemetry, inbox, received, handled,
                   workerVars, histVars, fnVars>>

\* Time passes, up to the next interval callback.
Tick ==
    /\ now < watchdogDue
    /\ now < MountMs + MaxTicks * RenderThrottleMs
    /\ now' = now + RenderThrottleMs
    /\ UNCHANGED <<lastSeenRef, connStatus, connStatusRef, watchdogDue,
                   selectedTurbineRef, lastPayloadRender, fleetTelemetry,
                   inbox, received, handled, workerVars, histVars, fnVars>>

\* setSelectedTurbine(id) and the effect that copies it to the ref.
SelectTurbine(id) ==
    /\ id # selectedTurbineRef
    /\ selectedTurbineRef' = id
    /\ UNCHANGED <<now, lastSeenRef, connStatus, connStatusRef, watchdogDue,
                   lastPayloadRender, fleetTelemetry, inbox, received, handled,
                   workerVars, histVars, fnVars>>

\* The provider once its mount effects have run: both workers created, the
\* status CONNECTED, the watchdog armed, nothing received yet.
InitProvider ==
    /\ WorkerInit
    /\ fnArgs = Null
    /\ fnOut = Null
    /\ hsize = ProviderCapacity
    /\ hfleet = NewHistorian(hsize)
    /\ added = [id \in FleetIds |-> <<>>]
    /\ now = MountMs
    /\ lastSeenRef = MountMs
    /\ connStatus = "CONNECTED"
    /\ connStatusRef = "CONNECTED"
    /\ watchdogDue = MountMs + WatchdogPeriodMs
    /\ selectedTurbineRef = "OVERVIEW"
    /\ lastPayloadRender = 0
    /\ fleetTelemetry = <<>>
    /\ inbox = <<>>
    /\ received = <<>>
    /\ handled = <<>>

NextProvider ==
    \/ \E payloadArray \in SimMessagesAt(Len(received) + 1, now) :
           SimOnMessage(payloadArray)
    \/ PdmOnMessage
    \/ Watchdog
    \/ Tick
    \/ \E id \in Selections : SelectTurbine(id)

SpecProvider == InitProvider /\ [][NextProvider]_vars


\* ========================================================================
\* Properties
\* ========================================================================

NonExtreme(rul) == rul # R(0) /\ rul # Sentinel

\* m is a median of a, b, c: one of them, with two of them at or below it
\* and two of them at or above it.
IsMedian3(m, a, b, c) ==
    LET t == <<a, b, c>>
    IN  /\ m \in {a, b, c}
        /\ Cardinality({i \in 1 .. 3 : RLe(t[i], m)}) >= 2
        /\ Cardinality({i \in 1 .. 3 : RGe(t[i], m)}) >= 2

\* C1: for every turbine, the decimation branch fires exactly on its samples
\* number W, 2W, 3W, ...: after n samples it has fired floor(n / W) times,
\* the last sample fired iff W divides n, the counter is n mod W, and a
\* firing sample leaves a full window and a counter reset to 0.
C1_DecimationEveryW ==
    \A id \in DOMAIN fleet :
        LET s == fleet[id]
            n == probe[id].samples
        IN  /\ probe[id].fired <=> (n % RAW_BUFFER_SIZE = 0)
            /\ probe[id].firings = n \div RAW_BUFFER_SIZE
            /\ s.trendHead = probe[id].firings
            /\ s.pointsSinceLastProcess = n % RAW_BUFFER_SIZE
            /\ probe[id].fired =>
                   s.vibCount = RAW_BUFFER_SIZE /\ s.pointsSinceLastProcess = 0

\* The second firing of a turbine, on its sample number 2W.
C1_Witness ==
    \E id \in DOMAIN fleet :
        probe[id].fired /\ probe[id].samples = 2 * RAW_BUFFER_SIZE

\* C2: a sample on which decimation does not fire leaves the turbine's
\* snapshot unchanged; a firing replaces it as a whole (its smoothed fields
\* are the two EMA states that firing stored); and the response carries the
\* turbine's snapshot as it is.
C2_SnapshotOnlyOnFiring ==
    [][\A id \in DOMAIN fleet' :
          LET before == IF id \in DOMAIN fleet THEN fleet[id] ELSE NewTurbineState
              old    == IF id \in DOMAIN probe THEN probe[id] ELSE NewProbe
              after  == fleet'[id]
          IN  /\ probe'[id].firings = old.firings =>
                     after.currentPdM = before.currentPdM
              /\ probe'[id].firings # old.firings =>
                     /\ after.currentPdM.smoothedVibration = after.lastEMA
                     /\ after.currentPdM.smoothedTemperature = after.lastTempEMA
              /\ id \in DOMAIN posted' => posted'[id] = after.currentPdM]_vars

\* A response to a sample that did not fire, carrying the snapshot of an
\* earlier firing.
C2_Witness ==
    \E id \in DOMAIN fleet :
        /\ ~probe[id].fired
        /\ probe[id].firings >= 1
        /\ id \in DOMAIN posted
        /\ posted[id] = fleet[id].currentPdM
        /\ posted[id] # DefaultPdM

\* C3: while the trend buffer holds fewer than T entries, the snapshot has
\* degradationSlope 0 and estimatedRUL = the stable sentinel 999.
C3_BurnIn ==
    \A id \in DOMAIN fleet :
        fleet[id].trendCount < BUFFER_SIZE =>
            /\ fleet[id].currentPdM.degradationSlope = R(0)
            /\ fleet[id].currentPdM.estimatedRUL = R(999)

\* A firing during burn-in whose smoothed amplitude is already critical.
C3_Witness ==
    \E id \in DOMAIN fleet :
        /\ probe[id].fired
        /\ fleet[id].trendCount >= 1
        /\ fleet[id].trendCount < BUFFER_SIZE
        /\ RGe(fleet[id].currentPdM.smoothedVibration, VibCritical)

\* C6: when the raw RUL of the last firing is 0 or the sentinel, all three
\* slots of the RUL ring and the snapshot's estimatedRUL hold that value.
C6_ExtremeOverride ==
    \A id \in DOMAIN fleet :
        LET raws == probe[id].raws
            n    == Len(raws)
        IN  (n >= 1 /\ ~NonExtreme(raws[n])) =>
                /\ \A i \in 0 .. 2 : fleet[id].rulBuffer[i] = raws[n]
                /\ fleet[id].currentPdM.estimatedRUL = raws[n]

\* A firing with raw RUL 0 (the smoothed amplitude is at or past the
\* critical threshold once the burn-in is over).
C6_Witness ==
    \E id \in DOMAIN fleet :
        LET raws == probe[id].raws
            n    == Len(raws)
        IN  /\ probe[id].fired
            /\ n >= 2
            /\ raws[n] = R(0)

\* A firing with raw RUL = the sentinel right after a firing with a
\* non-extreme raw RUL.
C6_WitnessStable ==
    \E id \in DOMAIN fleet :
        LET raws == probe[id].raws
            n    == Len(raws)
        IN  /\ probe[id].fired
            /\ n >= 2
            /\ raws[n] = Sentinel
            /\ NonExtreme(raws[n - 1])

\* C7: when the raw RUL of the last firing is neither 0 nor the sentinel, it
\* sits in the slot the head has just passed and estimatedRUL is the median
\* of the three slots as they are after that write; after three consecutive
\* such firings the slots hold exactly those three raw values, in ring
\* order, and estimatedRUL is their median.
C7_WriteThenMedian ==
    \A id \in DOMAIN fleet :
        LET s    == fleet[id]
            raws == probe[id].raws
            n    == Len(raws)
            est  == s.currentPdM.estimatedRUL
        IN  (n >= 1 /\ NonExtreme(raws[n])) =>
                /\ s.rulBuffer[(s.rulHead - 1) % 3] = raws[n]
                /\ IsMedian3(est, s.rulBuffer[0], s.rulBuffer[1], s.rulBuffer[2])
                /\ (n = 3 /\ NonExtreme(raws[1]) /\ NonExtreme(raws[2])) =>
                       /\ s.rulBuffer[(s.rulHead - 2) % 3] = raws[2]
                       /\ s.rulBuffer[(s.rulHead - 3) % 3] = raws[1]
                       /\ IsMedian3(est, raws[1], raws[2], raws[3])

\* Three consecutive non-extreme firings whose median is not the newest raw
\* value.
C7_Witness ==
    \E id \in DOMAIN fleet :
        LET raws == probe[id].raws
        IN  /\ probe[id].fired
            /\ Len(raws) = 3
            /\ \A i \in 1 .. 3 : NonExtreme(raws[i])
            /\ fleet[id].currentPdM.estimatedRUL # raws[3]


\* C4: the worker's calculateRUL(current, slope, threshold) is 0 when
\* current >= threshold; else 999 when current < 4.0; else 999 when
\* slope <= 0.01; else (threshold - current) / slope, replaced by 999 when
\* that quotient exceeds 120.
C4_RulBranchOrder ==
    fnOut.called =>
        LET c   == fnArgs.current
            m   == fnArgs.slope
            t   == fnArgs.threshold
            out == fnOut.worker
        IN  /\ RGe(c, t) => out = R(0)
            /\ (RLt(c, t) /\ RLt(c, R(4))) => out = R(999)
            /\ (RLt(c, t) /\ RGe(c, R(4)) /\ RLe(m, Q(1, 100))) => out = R(999)
            /\ (RLt(c, t) /\ RGe(c, R(4)) /\ RGt(m, Q(1, 100))) =>
                   IF RGt(RSub(t, c), RMul(R(120), m))
                   THEN out = R(999)
                   ELSE RMul(out, m) = RSub(t, c)

\* A call in which every early branch applies (at or past the threshold,
\* below the noise floor, flat slope) and the first one wins.
C4_Witness ==
    /\ fnOut.called
    /\ RGe(fnArgs.current, fnArgs.threshold)
    /\ RLt(fnArgs.current, NoiseFloor)
    /\ RLe(fnArgs.slope, MinSlope)
    /\ fnOut.worker = R(0)

\* C5: for every slope, both RUL estimators (the worker's calculateRUL and
\* the exported calculateRUL of utils) return 0 when current >= threshold.
C5_FailedIsZero ==
    (fnOut.called /\ RGe(fnArgs.current, fnArgs.threshold)) =>
        /\ fnOut.worker = R(0)
        /\ fnOut.utils = R(0)

\* C8 as stated: from a fresh turbine fed the raw RULs 10, sentinel, 10, the
\* filtered output is not 10 after the first push nor after the second, and
\* is 10 after the third.
C8_SnapsOnThirdPush ==
    /\ fnArgs = <<R(10)>> => fnOut.smoothedRul # R(10)
    /\ fnArgs = <<R(10), Sentinel>> => fnOut.smoothedRul # R(10)
    /\ fnArgs = <<R(10), Sentinel, R(10)>> => fnOut.smoothedRul = R(10)

\* C8 amended: from a fresh turbine fed the raw RULs 10, sentinel, 10, the
\* filtered output is the sentinel after each of the three pushes (the
\* sentinel push refills all three slots, so the third push leaves 10 in one
\* slot and the sentinel in the two others); it becomes 10 on a fourth,
\* consecutive push of 10.
C8_SnapsOnFourthPush ==
    /\ fnArgs = <<R(10)>> =>
           /\ fnOut.smoothedRul = Sentinel
           /\ fnOut.rulBuffer = [i \in 0 .. 2 |-> IF i = 0 THEN R(10) ELSE Sentinel]
    /\ fnArgs = <<R(10), Sentinel>> =>
           /\ fnOut.smoothedRul = Sentinel
           /\ fnOut.rulBuffer = [i \in 0 .. 2 |-> Sentinel]
    /\ fnArgs = <<R(10), Sentinel, R(10)>> =>
           /\ fnOut.smoothedRul = Sentinel
           /\ fnOut.rulBuffer = [i \in 0 .. 2 |-> IF i = 1 THEN R(10) ELSE Sentinel]
    /\ fnArgs = <<R(10), Sentinel, R(10), R(10)>> => fnOut.smoothedRul = R(10)

\* The filter after the third push of 10, sentinel, 10.
C8_Witness ==
    /\ fnArgs = <<R(10), Sentinel, R(10)>>
    /\ fnOut.smoothedRul = Sentinel

\* C9: after every firing smoothedTemperature is the EMA (alpha 0.05) of the
\* firing sample's temperature over the previous thermal EMA state (the
\* temperature itself on the first firing), and in every snapshot
\* temperatureStatus is critical iff smoothedTemperature >= 955, warning iff
\* 940 <= smoothedTemperature < 955, and nominal otherwise, so a band change
\* shows on the firing at which the smoothed value crosses a limit.
C9_ThermalBands ==
    \A id \in DOMAIN fleet :
        LET pdm == fleet[id].currentPdM
            st  == pdm.smoothedTemperature
            pr  == probe[id]
        IN  /\ pdm.temperatureStatus = "critical" <=> RGe(st, R(955))
            /\ pdm.temperatureStatus = "warning" <=>
                   (RGe(st, R(940)) /\ RLt(st, R(955)))
            /\ pdm.temperatureStatus = "nominal" <=> RLt(st, R(940))
            /\ pr.firings >= 1 =>
                   st = IF pr.prevTempEMA = Null THEN pr.temperature
                        ELSE RAdd(RMul(Q(5, 100), pr.temperature),
                                  RMul(Q(95, 100), pr.prevTempEMA))

\* A firing at which the smoothed temperature rises from the nominal band
\* into the warning band.
C9_Witness ==
    \E id \in DOMAIN fleet :
        /\ probe[id].fired
        /\ probe[id].prevTempEMA # Null
        /\ RLt(probe[id].prevTempEMA, R(940))
        /\ fleet[id].currentPdM.temperatureStatus = "warning"

\* A firing at which the smoothed temperature falls from the critical band
\* into the warning band.
C9_WitnessFalling ==
    \E id \in DOMAIN fleet :
        /\ probe[id].fired
        /\ probe[id].prevTempEMA # Null
        /\ RGe(probe[id].prevTempEMA, R(955))
        /\ fleet[id].currentPdM.temperatureStatus = "warning"


\* The last k elements of a sequence.
LastK(q, k) == SubSeq(q, Len(q) - k + 1, Len(q))

\* The amplitudes of a sequence of payloads.
Amplitudes(q) == [i \in 1 .. Len(q) |-> q[i].v]

\* C10: getRecent(id, maxCount) returns exactly the last
\* min(maxCount, adds for id, capacity) records added for that id, oldest
\* first, also after the ring has wrapped; with capacity 5, adds 1..7 give
\* [3,4,5,6,7] and adds 1..3 give [1,2,3].
C10_GetRecent ==
    fnArgs.op = "getRecent" =>
        LET log == added[fnArgs.id]
            k   == Min(Min(fnArgs.maxCount, Len(log)), hsize)
        IN  /\ fnOut = LastK(log, k)
            /\ (hsize = 5 /\ fnArgs.maxCount = 5
                    /\ Amplitudes(log) = <<R(1), R(2), R(3), R(4), R(5), R(6), R(7)>>) =>
                   Amplitudes(fnOut) = <<R(3), R(4), R(5), R(6), R(7)>>
            /\ (hsize = 5 /\ fnArgs.maxCount = 5
                    /\ Amplitudes(log) = <<R(1), R(2), R(3)>>) =>
                   Amplitudes(fnOut) = <<R(1), R(2), R(3)>>

\* getRecent(id, 5) on a ring of capacity 5 that has wrapped after 7 adds.
C10_Witness ==
    /\ fnArgs.op = "getRecent"
    /\ hsize = 5
    /\ fnArgs.maxCount = 5
    /\ Len(added[fnArgs.id]) = 7
    /\ Amplitudes(fnOut) = <<R(3), R(4), R(5), R(6), R(7)>>


\* C11: a batch entry that lacks a field or carries a non-numeric vibration
\* or temperature is dropped: the registry and the response after a batch
\* are those the batch gives without its malformed entries (no state of any
\* turbine changed by them, no turbine created for them).
C11_MalformedDropped ==
    [][\A batch \in Batches(WellFormedAt(Now) \cup MalformedAt(Now)) :
          OnMessage(batch) =>
              LET r == ProcessBatch([fleet |-> fleet, responseMap |-> EmptyMap,
                                     probe |-> probe], WellFormedOnly(batch), 1)
              IN  fleet' = r.fleet /\ posted' = r.responseMap]_vars

\* The entries of a batch in reverse order.
Reversed(batch) == [i \in 1 .. Len(batch) |-> batch[Len(batch) + 1 - i]]

\* C12: a batch changes the state of no turbine other than those of its
\* entries, and a batch whose ids are pairwise distinct gives, in the other
\* order, the same registry and the same response map.
C12_EntitiesIndependent ==
    [][\A batch \in Batches(FleetUpdatesAt(Now)) :
          OnMessage(batch) =>
              /\ \A id \in DOMAIN fleet \ BatchIds(batch) : fleet'[id] = fleet[id]
              /\ Cardinality(BatchIds(batch)) = Len(batch) =>
                     LET r == ProcessBatch([fleet |-> fleet, responseMap |-> EmptyMap,
                                            probe |-> probe], Reversed(batch), 1)
                     IN  fleet' = r.fleet /\ posted' = r.responseMap]_vars

\* A batch of two turbines that both fired on it, with different
\* snapshots.
C12_Witness ==
    /\ DOMAIN posted = FleetIds
    /\ probe["T-01"].fired
    /\ probe["T-02"].fired
    /\ posted["T-01"] # posted["T-02"]

\* C13: after every sample of a turbine, the peak window still has W slots
\* and a count of at most W, the trend buffers T slots and a count of at
\* most T, the RUL ring 3 slots, and the decimation counter lies in
\* 0 .. W-1; the sample changed the peak window at index (head mod W) only
\* and, when it fired, the trend buffers at index (head mod T) only, so
\* that a full buffer loses its oldest entry.
C13_FixedCapacityRings ==
    [][\A id \in DOMAIN fleet' :
          LET before == IF id \in DOMAIN fleet THEN fleet[id] ELSE NewTurbineState
              after  == fleet'[id]
          IN  /\ DOMAIN after.vibBuffer = 0 .. RAW_BUFFER_SIZE - 1
              /\ DOMAIN after.trendTsBuffer = 0 .. BUFFER_SIZE - 1
              /\ DOMAIN after.trendEmaBuffer = 0 .. BUFFER_SIZE - 1
              /\ DOMAIN after.rulBuffer = 0 .. 2
              /\ after.vibCount \in 0 .. RAW_BUFFER_SIZE
              /\ after.trendCount \in 0 .. BUFFER_SIZE
              /\ after.pointsSinceLastProcess \in 0 .. RAW_BUFFER_SIZE - 1
              /\ after.vibHead = before.vibHead + 1 =>
                     /\ \A i \in 0 .. RAW_BUFFER_SIZE - 1 :
                            i # before.vibHead % RAW_BUFFER_SIZE =>
                                after.vibBuffer[i] = before.vibBuffer[i]
                     /\ after.vibCount =
                            IF before.vibCount < RAW_BUFFER_SIZE
                            THEN before.vibCount + 1 ELSE RAW_BUFFER_SIZE
              /\ after.trendHead = before.trendHead + 1 =>
                     /\ \A i \in 0 .. BUFFER_SIZE - 1 :
                            i # before.trendHead % BUFFER_SIZE =>
                                /\ after.trendTsBuffer[i] = before.trendTsBuffer[i]
                                /\ after.trendEmaBuffer[i] = before.trendEmaBuffer[i]
                     /\ after.trendTsBuffer[before.trendHead % BUFFER_SIZE]
                            = R(Now)
                     /\ after.trendEmaBuffer[before.trendHead % BUFFER_SIZE]
                            = after.lastEMA
                     /\ after.trendCount =
                            IF before.trendCount < BUFFER_SIZE
                            THEN before.trendCount + 1 ELSE BUFFER_SIZE
              /\ after.trendHead = before.trendHead =>
                     /\ after.trendTsBuffer = before.trendTsBuffer
                     /\ after.trendEmaBuffer = before.trendEmaBuffer]_vars

\* A firing on full buffers: the peak window and the trend buffer have both
\* wrapped, and the firing overwrote the oldest trend point.
C13_Witness ==
    \E id \in DOMAIN fleet :
        /\ probe[id].fired
        /\ fleet[id].vibHead > 2 * RAW_BUFFER_SIZE
        /\ fleet[id].trendHead > BUFFER_SIZE
        /\ fleet[id].trendCount = BUFFER_SIZE

\* C14: the regression does not read the timestamps of the input records:
\* in every state, the next sample of a turbine gives the same
\* degradationSlope whether it is stamped with the clock's time or arrives
\* one tick late.
C14_SlopeIgnoresTimestamps ==
    \A id \in DOMAIN fleet :
        \A u \in UpdatesAt(Now, Vibrations, Temperatures) :
            u.id = id =>
                ProcessUpdate(fleet[id], u).state.currentPdM.degradationSlope
                    = ProcessUpdate(fleet[id], [u EXCEPT !.timestamp = R(Now + 1)])
                          .state.currentPdM.degradationSlope

\* C15: a batch is answered by one response whose keys are the ids of the
\* batch's entries, each mapped to that turbine's snapshot as the batch
\* left it; the registry gains the batch's ids and nothing else, and a
\* turbine without an entry in the batch keeps its whole state.
C15_ResponseKeysAreBatchIds ==
    [][\A batch \in Batches(FleetUpdatesAt(Now)) :
          OnMessage(batch) =>
              /\ DOMAIN posted' = BatchIds(batch)
              /\ \A id \in BatchIds(batch) : posted'[id] = fleet'[id].currentPdM
              /\ DOMAIN fleet' = DOMAIN fleet \cup BatchIds(batch)
              /\ \A id \in DOMAIN fleet :
                     id \notin BatchIds(batch) => fleet'[id] = fleet[id]]_vars

\* A response to a batch that has an entry for one turbine only, while the
\* other turbine holds the snapshot of an earlier firing.
C15_Witness ==
    /\ DOMAIN posted = {"T-01"}
    /\ posted["T-01"] # DefaultPdM
    /\ "T-02" \in DOMAIN fleet
    /\ fleet["T-02"].currentPdM # DefaultPdM
    /\ probe["T-01"].fired

\* C16: exportCSV(id) emits, after its four header lines, one row per
\* retained record of that id (min(adds, capacity) rows), oldest first,
\* also after the ring has wrapped; the rows are told apart by their
\* timestamps, which differ from one record to the next.
C16_ExportRowsChronological ==
    (fnArgs.op = "exportCSV" /\ Len(added[fnArgs.id]) > 0) =>
        LET log  == added[fnArgs.id]
            k    == Min(Len(log), hsize)
            kept == LastK(log, k)
        IN  /\ Len(fnOut) = 4 + k
            /\ SubSeq(fnOut, 1, 4) = CsvHeader(fnArgs.id)
            /\ \A i \in 1 .. k :
                   fnOut[4 + i].row[1] = [iso |-> kept[i].t[1]]

\* An export of a ring that has wrapped: more adds than the capacity, and
\* at least two rows.
C16_Witness ==
    /\ fnArgs.op = "exportCSV"
    /\ hsize >= 2
    /\ Len(added[fnArgs.id]) > hsize
    /\ Len(fnOut) = 4 + hsize

\* The records an export of id holds rows for, oldest first.
Retained(id) == LastK(added[id], Min(Len(added[id]), hsize))

\* C17: the label of every export row is CRITICAL iff |v| >= the critical
\* amplitude limit of the configuration (VIB_LIMITS.critical, 11.2),
\* WARNING iff VIB_LIMITS.warning (7.1) <= |v| < critical, and NOMINAL
\* otherwise.
C17_LabelsFollowVibLimits ==
    (fnArgs.op = "exportCSV" /\ Len(added[fnArgs.id]) > 0) =>
        \A i \in 1 .. Len(Retained(fnArgs.id)) :
            LET absVib == RAbs(Retained(fnArgs.id)[i].v)
                label  == fnOut[4 + i].row[5]
            IN  /\ label = "CRITICAL" <=> RGe(absVib, VibCritical)
                /\ label = "WARNING" <=>
                       (RGe(absVib, VibWarning) /\ RLt(absVib, VibCritical))
                /\ label = "NOMINAL" <=> RLt(absVib, VibWarning)

\* C18: every data row lists timestamp, amplitude (vibration), rpm,
\* temperature and condition label, in this order.
C18_ColumnOrder ==
    (fnArgs.op = "exportCSV" /\ Len(added[fnArgs.id]) > 0) =>
        \A i \in 1 .. Len(Retained(fnArgs.id)) :
            LET entry == Retained(fnArgs.id)[i]
                row   == fnOut[4 + i].row
            IN  /\ row[1] = ToISOString(entry.t)
                /\ row[2] = ToFixed2(entry.v)
                /\ row[3] = ToFixed2(entry.r)
                /\ row[4] = ToFixed2(entry.c)
                /\ row[5] \in {"NOMINAL", "WARNING", "CRITICAL"}

\* C19: for an id without recorded samples, getRecent returns the empty
\* list, getLength 0 and exportCSV no line; and no read creates or changes
\* a ring: the Historian holds the pre-created ids and the ids written to,
\* and the ring of an id never written to is as the constructor made it.
C19_EmptyReads ==
    /\ (fnArgs.op \in {"getRecent", "getLength", "exportCSV"}
            /\ Len(added[fnArgs.id]) = 0) =>
           /\ fnArgs.op = "getRecent" => fnOut = <<>>
           /\ fnArgs.op = "getLength" => fnOut = 0
           /\ fnArgs.op = "exportCSV" => fnOut = <<>>
    /\ DOMAIN hfleet = PreCreated \cup {id \in DOMAIN added : Len(added[id]) > 0}
    /\ \A id \in DOMAIN hfleet :
           (id \notin DOMAIN added \/ Len(added[id]) = 0) =>
               hfleet[id] = NewRing(hsize)

\* An export asked for an id the Historian has never seen, while another
\* id holds records.
C19_Witness ==
    /\ fnArgs.op = "exportCSV"
    /\ fnArgs.id = "T-77"
    /\ fnOut = <<>>
    /\ Adds >= 1
    /\ "T-77" \notin DOMAIN hfleet

\* The same for a pre-created id that holds no record.
C19_WitnessPreCreated ==
    /\ fnArgs.op = "exportCSV"
    /\ fnArgs.id = "T-02"
    /\ fnOut = <<>>
    /\ Adds >= 1

\* C20: after n adds for an id its ring has count = min(n, H) and
\* head = n mod H, its buffer still has H slots, the last min(n, H) records
\* added for the id sit in it whole, the newest right behind the head, and
\* the other slots are null; a ring exists for the pre-created ids and for
\* the ids added to.  Each ring being determined by the adds for its own id,
\* an add changes no other ring.
C20_AddBookkeeping ==
    /\ DOMAIN hfleet = PreCreated \cup {id \in DOMAIN added : Len(added[id]) > 0}
    /\ \A id \in DOMAIN hfleet :
           LET log  == IF id \in DOMAIN added THEN added[id] ELSE <<>>
               n    == Len(log)
               ring == hfleet[id]
           IN  /\ ring.count = Min(n, hsize)
               /\ ring.head = n % hsize
               /\ DOMAIN ring.buffer = 0 .. hsize - 1
               /\ \A j \in 1 .. Min(n, hsize) :
                      ring.buffer[(n - j) % hsize] = log[n - j + 1]
               /\ Cardinality({i \in 0 .. hsize - 1 : ring.buffer[i] = NullEntry})
                      = hsize - Min(n, hsize)

\* An add to an id the constructor did not create, after its ring has
\* wrapped.
C20_Witness ==
    /\ fnArgs.op = "add"
    /\ "T-09" \in DOMAIN hfleet
    /\ hsize >= 2
    /\ Len(added["T-09"]) > hsize
    /\ Len(added["T-01"]) >= 1

\* The x values of the populated slots of a trend ring are all the same.
SameX(t) ==
    \A i, j \in 1 .. t.trendCount : TrendPoints(t)[i][1] = TrendPoints(t)[j][1]

\* C21: given fewer than 2 points, or points whose x values are all
\* identical, the regression (the worker's and the exported one) returns
\* slope 0.
C21_DegenerateSlopeZero ==
    (fnOut.called /\ (fnArgs.trend.trendCount < 2 \/ SameX(fnArgs.trend))) =>
        /\ fnOut.typed = F(0)
        /\ fnOut.utils = F(0)

\* C22: for points y = a + b*x at pairwise distinct x (here whole numbers
\* one apart, so that every point is exact), the computed slope equals b,
\* wherever the head of the ring stands.
C22_SlopeOfLinearTrend ==
    (/\ fnOut.called
     /\ fnArgs.step = 1
     /\ fnArgs.x0.e >= 0
     /\ fnArgs.trend.trendCount >= 2) =>
        fnOut.typed = F(fnArgs.b)

\* The slope of a sequence of <<x, y>> points, laid out from slot 0 of a
\* ring that has not wrapped.
SlopeOfPoints(points) ==
    calculateLinearRegressionTyped([i \in 0 .. Len(points) - 1 |-> points[i + 1][1]],
                                   [i \in 0 .. Len(points) - 1 |-> points[i + 1][2]],
                                   Len(points), Len(points), Len(points))

\* C23: once the trend buffer is full, the slope a firing reports is the
\* slope of exactly the T trend points pushed last, the one of that firing
\* included; what was pushed earlier has no part in it.
C23_SlopeOverLastT ==
    \A id \in DOMAIN fleet :
        (probe[id].fired /\ fleet[id].trendCount >= BUFFER_SIZE) =>
            /\ Len(probe[id].trend) = BUFFER_SIZE
            /\ fleet[id].currentPdM.degradationSlope = SlopeOfPoints(probe[id].trend)

\* A firing on a ring that has wrapped (points have been dropped), with a
\* slope other than 0.
C23_Witness ==
    \E id \in DOMAIN fleet :
        /\ probe[id].fired
        /\ fleet[id].trendHead > BUFFER_SIZE + 1
        /\ fleet[id].currentPdM.degradationSlope # R(0)

\* The slots of the peak window that hold a sample.
Populated(state) ==
    {k % RAW_BUFFER_SIZE : k \in state.vibHead - state.vibCount .. state.vibHead - 1}

\* p is the largest absolute value among vals, 0 when there is none.
IsMaxAbs(p, vals) ==
    /\ \A v \in vals : RLe(RAbs(v), p)
    /\ p = R(0) \/ \E v \in vals : RAbs(v) = p

\* C24: peakVib() is the maximum absolute value over the populated slots of
\* the window (0 for an empty window); the samples of a turbine fall into
\* consecutive groups of W, one per firing, and the amplitude a firing
\* smooths is the maximum |vibration| of its own group.
C24_PeakOfWindow ==
    /\ peakVib(NewTurbineState) = R(0)
    /\ \A id \in DOMAIN fleet :
          LET s  == fleet[id]
              pr == probe[id]
          IN  /\ IsMaxAbs(peakVib(s), {s.vibBuffer[i] : i \in Populated(s)})
              /\ pr.samples = pr.firings * RAW_BUFFER_SIZE + Len(pr.window)
              /\ Len(pr.window) < RAW_BUFFER_SIZE
              /\ pr.fired =>
                    /\ Len(pr.peaks) = RAW_BUFFER_SIZE
                    /\ \E j \in 1 .. Len(pr.peaks) :
                          /\ IsMaxAbs(RAbs(pr.peaks[j]),
                                      {pr.peaks[i] : i \in 1 .. Len(pr.peaks)})
                          /\ s.lastEMA = calculateEMA(RAbs(pr.peaks[j]), pr.prevEMA,
                                                      AlphaVib)
                    /\ s.currentPdM.smoothedVibration = s.lastEMA

\* A firing, not the first, whose group holds both vibrations and whose
\* peak is the absolute value of the negative one.
C24_Witness ==
    \E id \in DOMAIN fleet :
        /\ probe[id].fired
        /\ probe[id].firings >= 2
        /\ {probe[id].peaks[i] : i \in 1 .. Len(probe[id].peaks)} = {R(-20), R(5)}
        /\ peakVib(fleet[id]) = R(20)

\* The largest absolute value of a non-empty sequence of numbers.
PeakOf(q) ==
    CHOOSE p \in {RAbs(q[i]) : i \in 1 .. Len(q)} :
        \A i \in 1 .. Len(q) : RLe(RAbs(q[i]), p)

\* out is previous moved towards current by the fraction alpha.
IsBlend(out, current, previous, alpha) ==
    RSub(out, previous) = RMul(alpha, RSub(current, previous))

\* C25: calculateEMA returns current when previous is null and
\* alpha*current + (1 - alpha)*previous otherwise; in the worker each of the
\* two smoothers starts from its own previous value: the first firing
\* reports the peak and the sample's temperature as they are, a later
\* firing blends the peak with the previous smoothed amplitude at 0.1 and
\* the temperature with the previous smoothed temperature at 0.05.
C25_EmaColdStartAndBlend ==
    /\ Len(fnOut) = 1 =>
          IF fnArgs[2] = Null THEN fnOut[1] = fnArgs[1]
          ELSE IsBlend(fnOut[1], fnArgs[1], fnArgs[2], fnArgs[3])
    /\ \A id \in DOMAIN fleet :
          LET pdm == fleet[id].currentPdM
              pr  == probe[id]
          IN  pr.fired =>
                 /\ pr.firings = 1 =>
                       /\ pr.prevEMA = Null /\ pr.prevTempEMA = Null
                       /\ pdm.smoothedVibration = PeakOf(pr.peaks)
                       /\ pdm.smoothedTemperature = pr.temperature
                 /\ pr.firings > 1 =>
                       /\ pr.prevEMA # Null /\ pr.prevTempEMA # Null
                       /\ IsBlend(pdm.smoothedVibration, PeakOf(pr.peaks),
                                  pr.prevEMA, Q(1, 10))
                       /\ IsBlend(pdm.smoothedTemperature, pr.temperature,
                                  pr.prevTempEMA, Q(1, 20))

\* A second firing whose peak and temperature both differ from the
\* previous smoothed values.
C25_Witness ==
    \E id \in DOMAIN fleet :
        /\ probe[id].fired
        /\ probe[id].firings = 2
        /\ PeakOf(probe[id].peaks) # probe[id].prevEMA
        /\ probe[id].temperature # probe[id].prevTempEMA
        /\ fleet[id].currentPdM.smoothedVibration # PeakOf(probe[id].peaks)
        /\ fleet[id].currentPdM.smoothedTemperature # probe[id].temperature

\* A direct call with a previous value and a coefficient strictly between 0
\* and 1.
C25_WitnessCall ==
    /\ Len(fnOut) = 1
    /\ fnArgs[2] # Null
    /\ fnArgs[3] = Q(1, 20)
    /\ fnOut[1] # fnArgs[1]

\* C26 as stated: for every current and threshold, calculateRUL returns the
\* stable sentinel 999 whenever slope <= 0.01.
C26_FlatSlopeAlwaysStable ==
    (fnOut.called /\ RLe(fnArgs.slope, Q(1, 100))) => fnOut.worker = R(999)

\* C26 as amended: for every current below the threshold, calculateRUL
\* returns the stable sentinel 999 whenever slope <= 0.01 (at or above the
\* threshold it returns 0, whatever the slope).
C26_FlatSlopeStableBelowThreshold ==
    (fnOut.called /\ RLe(fnArgs.slope, Q(1, 100))) =>
        IF RLt(fnArgs.current, fnArgs.threshold)
        THEN fnOut.worker = R(999)
        ELSE fnOut.worker = R(0)

\* A call at exactly the minimum slope, with a current between the noise
\* floor and the threshold and close enough to it for the projection to be
\* within the horizon.
C26_Witness ==
    /\ fnOut.called
    /\ fnArgs.slope = Q(1, 100)
    /\ RGe(fnArgs.current, R(4))
    /\ RLt(fnArgs.current, fnArgs.threshold)
    /\ RLe(RDiv(RSub(fnArgs.threshold, fnArgs.current), fnArgs.slope), R(120))
    /\ fnOut.worker = R(999)

\* C27 as stated: for a slope above 0.01 and a fixed threshold, for all
\* currents c1 < c2 < threshold, calculateRUL(c2, slope, threshold) is
\* strictly less than calculateRUL(c1, slope, threshold).
C27_RulStrictlyDecreasing ==
    (fnOut.called /\ FGt(fnArgs.slope, MinSlopeF64)) =>
        \A c2 \in RulCurrentsF64 :
            (FLt(fnArgs.current, c2) /\ FLt(c2, fnArgs.threshold)) =>
                FLt(calculateRULF64(c2, fnArgs.slope, fnArgs.threshold), fnOut.rul)

\* C27 as amended: for a slope above 0.01 and a fixed threshold, for all
\* currents c1 < c2 < threshold, calculateRUL(c2, slope, threshold) is never
\* greater than calculateRUL(c1, slope, threshold).
C27_RulNonIncreasing ==
    (fnOut.called /\ FGt(fnArgs.slope, MinSlopeF64)) =>
        \A c2 \in RulCurrentsF64 :
            (FLt(fnArgs.current, c2) /\ FLt(c2, fnArgs.threshold)) =>
                FLe(calculateRULF64(c2, fnArgs.slope, fnArgs.threshold), fnOut.rul)

\* Two currents between the noise floor and the threshold whose projections
\* are both within the horizon, the larger current with the smaller RUL.
C27_Witness ==
    /\ fnOut.called
    /\ FGt(fnArgs.slope, MinSlopeF64)
    /\ FGe(fnArgs.current, NoiseFloorF64)
    /\ fnOut.rul # SentinelF64
    /\ \E c2 \in RulCurrentsF64 :
          /\ FLt(fnArgs.current, c2) /\ FLt(c2, fnArgs.threshold)
          /\ FLt(calculateRULF64(c2, fnArgs.slope, fnArgs.threshold), fnOut.rul)

\* Two different currents whose projections, both within the horizon, are
\* the same number after rounding.
C27_WitnessRounded ==
    /\ fnOut.called
    /\ FGt(fnArgs.slope, MinSlopeF64)
    /\ fnOut.rul # SentinelF64
    /\ \E c2 \in RulCurrentsF64 :
          /\ FLt(fnArgs.current, c2) /\ FLt(c2, fnArgs.threshold)
          /\ calculateRULF64(c2, fnArgs.slope, fnArgs.threshold) = fnOut.rul

\* C28: a fresh turbine is fed RAW_BUFFER_SIZE samples of amplitude 1.5.
\* The responses to all but the last carry the default snapshot and nothing
\* has fired; on the last one decimation fires with peak 1.5,
\* smoothedVibration 1.5, exactly one trend-buffer entry, degradationSlope 0
\* and estimatedRUL = the stable sentinel 999.
C28_FirstWindowScenario ==
    \A id \in DOMAIN fleet :
        LET s  == fleet[id]
            pr == probe[id]
        IN  /\ pr.samples < RAW_BUFFER_SIZE =>
                  /\ pr.firings = 0
                  /\ s.trendCount = 0
                  /\ s.currentPdM = DefaultPdM
                  /\ id \in DOMAIN posted => posted[id] = DefaultPdM
            /\ pr.samples = RAW_BUFFER_SIZE =>
                  /\ pr.fired /\ pr.firings = 1
                  /\ peakVib(s) = Q(3, 2)
                  /\ s.currentPdM.smoothedVibration = Q(3, 2)
                  /\ s.trendCount = 1 /\ s.trendHead = 1
                  /\ s.trendEmaBuffer[0] = Q(3, 2)
                  /\ s.currentPdM.degradationSlope = R(0)
                  /\ s.currentPdM.estimatedRUL = R(999)
                  /\ id \in DOMAIN posted => posted[id] = s.currentPdM

\* The response to the sample that completes the first window of a turbine,
\* while another turbine is still short of its own.
C28_Witness ==
    \E id \in DOMAIN posted :
        /\ probe[id].samples = RAW_BUFFER_SIZE
        /\ posted[id].smoothedVibration = Q(3, 2)
        /\ posted[id].estimatedRUL = R(999)
        /\ \E other \in DOMAIN fleet :
              other # id /\ probe[other].samples < RAW_BUFFER_SIZE

\* C29 as stated: once any sample of a turbine has been processed, its
\* amplitude EMA state and its temperature EMA state are both non-null.
C29_EmaStateSetByFirstSample ==
    \A id \in DOMAIN fleet :
        probe[id].samples >= 1 =>
            fleet[id].lastEMA # Null /\ fleet[id].lastTempEMA # Null

\* C29: the amplitude EMA state and the temperature EMA state of a turbine
\* are null exactly until its first decimation firing: both are null while
\* no sample of the turbine has fired, and both are non-null after any
\* firing, on the samples between firings too.
C29_EmaStateNullUntilFirstFiring ==
    \A id \in DOMAIN fleet :
        /\ probe[id].firings = 0 =>
              fleet[id].lastEMA = Null /\ fleet[id].lastTempEMA = Null
        /\ probe[id].firings >= 1 =>
              fleet[id].lastEMA # Null /\ fleet[id].lastTempEMA # Null

\* A turbine that has fired and has since processed a sample that did not.
C29_Witness ==
    \E id \in DOMAIN fleet :
        /\ probe[id].firings >= 1
        /\ ~probe[id].fired
        /\ fleet[id].pointsSinceLastProcess >= 1
        /\ fleet[id].lastEMA # Null
        /\ fleet[id].lastTempEMA # Null

\* C30: within one turbine the vibration path and the thermal path do not
\* influence each other. On every response, the run that differs from the
\* base run only in its temperatures reports the same smoothedVibration,
\* degradationSlope and estimatedRUL, and the run that differs only in its
\* vibrations reports the same smoothedTemperature and temperatureStatus.
C30_PathsIndependent ==
    BaseRun \in DOMAIN posted =>
        /\ {OtherTemperatureRun, OtherVibrationRun} \subseteq DOMAIN posted
        /\ posted[OtherTemperatureRun].smoothedVibration
               = posted[BaseRun].smoothedVibration
        /\ posted[OtherTemperatureRun].degradationSlope
               = posted[BaseRun].degradationSlope
        /\ posted[OtherTemperatureRun].estimatedRUL
               = posted[BaseRun].estimatedRUL
        /\ posted[OtherVibrationRun].smoothedTemperature
               = posted[BaseRun].smoothedTemperature
        /\ posted[OtherVibrationRun].temperatureStatus
               = posted[BaseRun].temperatureStatus

\* After a second firing, the runs have been told apart by what was changed:
\* the other temperatures gave another smoothedTemperature and status, the
\* other vibrations another smoothedVibration and estimatedRUL.
C30_Witness ==
    /\ BaseRun \in DOMAIN posted
    /\ probe[BaseRun].firings >= 2
    /\ posted[OtherTemperatureRun].smoothedTemperature
           # posted[BaseRun].smoothedTemperature
    /\ posted[OtherTemperatureRun].temperatureStatus
           # posted[BaseRun].temperatureStatus
    /\ posted[OtherVibrationRun].smoothedVibration
           # posted[BaseRun].smoothedVibration
    /\ posted[OtherVibrationRun].estimatedRUL
           # posted[BaseRun].estimatedRUL

\* A raw RUL the overrides act on: "failed" or "stable".
IsExtreme(rawRul) == rawRul = R(0) \/ rawRul = Sentinel

\* C31: the filtered RUL enters and leaves a terminal value without lag. A
\* raw 0 or a raw sentinel is the filtered output of the very firing that
\* computed it, and once that raw value has been followed by two consecutive
\* raw values that are neither 0 nor the sentinel, the filtered output is no
\* longer that terminal value.
C31_TerminalWithoutLag ==
    LET n == Len(fnArgs)
    IN  /\ n >= 1 /\ IsExtreme(fnArgs[n]) => fnOut.smoothedRul = fnArgs[n]
        /\ (/\ n >= 3
            /\ IsExtreme(fnArgs[n - 2])
            /\ ~IsExtreme(fnArgs[n - 1])
            /\ ~IsExtreme(fnArgs[n]))
           => fnOut.smoothedRul # fnArgs[n - 2]

\* Two writes to the ring, a terminal value, then two raw values in between:
\* the terminal value is left in one slot only, whichever slot the head was
\* at, and the output is one of the two new values.
C31_Witness ==
    LET n == Len(fnArgs)
    IN  /\ n = 5
        /\ ~IsExtreme(fnArgs[1]) /\ ~IsExtreme(fnArgs[2])
        /\ IsExtreme(fnArgs[3])
        /\ ~IsExtreme(fnArgs[4]) /\ ~IsExtreme(fnArgs[5])
        /\ fnOut.rulHead % RUL_SLOTS = 1
        /\ fnOut.smoothedRul \in {fnArgs[4], fnArgs[5]}

\* C32 as stated: in every snapshot a firing produced, the burn-in firings
\* included, smoothedVibration >= the critical amplitude implies
\* estimatedRUL = 0.
C32_CriticalImpliesFailed ==
    \A id \in DOMAIN fleet :
        LET pdm == fleet[id].currentPdM
        IN  (probe[id].firings >= 1 /\ RGe(pdm.smoothedVibration, VibCritical))
                => pdm.estimatedRUL = R(0)

\* C32: in every snapshot produced by a firing that found the trend buffer
\* full (trendCount >= BUFFER_SIZE after its push), smoothedVibration >= the
\* critical amplitude implies estimatedRUL = 0; the snapshots of the burn-in
\* firings before it carry the sentinel whatever the amplitude.
C32_CriticalImpliesFailedAfterBurnIn ==
    \A id \in DOMAIN fleet :
        LET s   == fleet[id]
            pdm == s.currentPdM
        IN  /\ (s.trendCount >= BUFFER_SIZE
                  /\ RGe(pdm.smoothedVibration, VibCritical))
                   => pdm.estimatedRUL = R(0)
            /\ (probe[id].firings >= 1 /\ s.trendCount < BUFFER_SIZE)
                   => pdm.estimatedRUL = Sentinel

\* The first firing on a full trend buffer, at a critical amplitude.
C32_Witness ==
    \E id \in DOMAIN fleet :
        /\ probe[id].fired
        /\ probe[id].firings = BUFFER_SIZE
        /\ fleet[id].trendCount = BUFFER_SIZE
        /\ RGe(fleet[id].currentPdM.smoothedVibration, VibCritical)
        /\ fleet[id].currentPdM.estimatedRUL = R(0)

\* C33 as stated: in every snapshot, estimatedRUL = 0 only if that
\* snapshot's smoothedVibration >= the critical amplitude, and no firing
\* whose raw RUL is non-zero is reported as failed.
C33_FailedOnlyIfCritical ==
    \A id \in DOMAIN fleet :
        LET pdm == fleet[id].currentPdM
            pr  == probe[id]
        IN  pdm.estimatedRUL = R(0) =>
                /\ RGe(pdm.smoothedVibration, VibCritical)
                /\ pr.raws # <<>> /\ pr.raws[Len(pr.raws)] = R(0)

\* C33: in every snapshot, estimatedRUL = 0 only if the smoothedVibration of
\* that firing or of the turbine's previous firing is >= the critical
\* amplitude: the filter reports failed for a firing whose raw RUL is
\* non-zero only on the firing that directly follows a raw RUL of 0, where
\* two of the three slots still hold the 0.
C33_FailedOnlyIfCriticalNowOrBefore ==
    \A id \in DOMAIN fleet :
        LET pdm == fleet[id].currentPdM
            pr  == probe[id]
            n   == Len(pr.raws)
        IN  pdm.estimatedRUL = R(0) =>
                /\ n >= 1
                /\ \/ /\ pr.raws[n] = R(0)
                      /\ RGe(pdm.smoothedVibration, VibCritical)
                   \/ /\ n >= 2
                      /\ pr.raws[n - 1] = R(0)
                      /\ ~IsExtreme(pr.raws[n])
                      /\ pr.prevEMA # Null
                      /\ RGe(pr.prevEMA, VibCritical)

\* A firing below the critical amplitude, with a raw RUL between 0 and the
\* cap, reported as failed because the firing before it was critical.
C33_Witness ==
    \E id \in DOMAIN fleet :
        LET pdm == fleet[id].currentPdM
            pr  == probe[id]
        IN  /\ pr.fired
            /\ pdm.estimatedRUL = R(0)
            /\ RLt(pdm.smoothedVibration, VibCritical)
            /\ ~IsExtreme(pr.raws[Len(pr.raws)])
            /\ RGe(pr.prevEMA, VibCritical)

\* C34: the trend buffer is fully populated, and the regression produces
\* the slope, once a turbine has received BUFFER_SIZE raw samples (in the
\* source 250 samples: 5 seconds of input at 50 Hz).
C34_TrendFullAfterBufferSizeSamples ==
    \A id \in DOMAIN fleet :
        probe[id].samples >= BUFFER_SIZE =>
            fleet[id].trendCount = BUFFER_SIZE

\* The state the next sample of turbine id is processed on.
StateOf(id) == IF id \in DOMAIN fleet THEN fleet[id] ELSE NewTurbineState

\* C35: the temperature of a sample on which decimation does not fire has no
\* effect on any state or snapshot. In every reachable state, a next sample
\* that does not fire leaves the same TurbineState and snapshot whatever its
\* temperature; the samples that do fire are the samples number W, 2W, ...
\* of the turbine, and smoothedTemperature and temperatureStatus are the EMA
\* and the band of the firing samples' temperatures only.
C35_NonFiringTemperatureIgnored ==
    /\ \A u \in UpdatesAt(Now, {R(1)}, ThermalTemperatures) :
          LET st == StateOf(u.id)
              r  == ProcessUpdate(st, u)
          IN  /\ r.fired <=> (st.vibHead + 1) % RAW_BUFFER_SIZE = 0
              /\ ~r.fired =>
                    \A c \in ThermalTemperatures \cup {NaN} :
                        ProcessUpdate(st, [u EXCEPT !.temperature = c]) = r
    /\ \A id \in DOMAIN fleet :
          LET s  == fleet[id]
              pr == probe[id]
          IN  pr.firings >= 1 =>
                  /\ s.lastTempEMA
                         = calculateEMA(pr.temperature, pr.prevTempEMA, AlphaTemp)
                  /\ s.currentPdM.smoothedTemperature = s.lastTempEMA
                  /\ s.currentPdM.temperatureStatus = TempStatus(s.lastTempEMA)

\* A turbine whose snapshot is nominal after a firing, about to receive a
\* sample that does not fire: at 3700 degrees the sample leaves the snapshot
\* nominal, as it does at 800.
C35_Witness ==
    \E u \in UpdatesAt(Now, {R(1)}, {R(3700)}) :
        /\ u.id \in DOMAIN fleet
        /\ probe[u.id].firings >= 1
        /\ fleet[u.id].currentPdM.temperatureStatus = "nominal"
        /\ ~ProcessUpdate(fleet[u.id], u).fired
        /\ ProcessUpdate(fleet[u.id], u).state.currentPdM.temperatureStatus = "nominal"
        /\ ProcessUpdate(fleet[u.id], u)
               = ProcessUpdate(fleet[u.id], [u EXCEPT !.temperature = R(800)])

\* 0, the sentinel, or a projection within the horizon: 0 < x <= 120.
InRulRange(x) ==
    \/ x = R(0)
    \/ x = Sentinel
    \/ RGt(x, R(0)) /\ RLe(x, HorizonCap)

\* C36: in every reachable state, every slot of a turbine's RUL ring, the
\* snapshot's estimatedRUL and every estimatedRUL posted are 0, the sentinel
\* 999 or a value in (0, 120]: never a negative value, never a value strictly
\* between 120 and 999.
C36_RulValuesInRange ==
    /\ \A id \in DOMAIN fleet :
          /\ \A i \in 0 .. RUL_SLOTS - 1 : InRulRange(fleet[id].rulBuffer[i])
          /\ InRulRange(fleet[id].currentPdM.estimatedRUL)
          /\ \A i \in 1 .. Len(probe[id].raws) : InRulRange(probe[id].raws[i])
    /\ \A id \in DOMAIN posted : InRulRange(posted[id].estimatedRUL)

\* A ring that holds two projections and reports their median.
C36_Witness ==
    \E id \in DOMAIN fleet :
        LET s == fleet[id]
        IN  /\ \E i, j \in 0 .. RUL_SLOTS - 1 :
                  /\ i # j
                  /\ ~IsExtreme(s.rulBuffer[i])
                  /\ ~IsExtreme(s.rulBuffer[j])
            /\ ~IsExtreme(s.currentPdM.estimatedRUL)
            /\ RGt(s.currentPdM.estimatedRUL, R(0))
            /\ RLe(s.currentPdM.estimatedRUL, HorizonCap)

\* The concatenation of the arrays of a sequence of messages.
RECURSIVE Flatten(_)
Flatten(msgs) ==
    IF msgs = <<>> THEN <<>> ELSE Head(msgs) \o Flatten(Tail(msgs))

\* The entries of a sequence that belong to turbine id, in order.
Of(id, s) == SelectSeq(s, LAMBDA e : e.id = id)

\* C37: every payload received from the simulator is added to the Historian
\* and forwarded to the PdM worker exactly once, in arrival order and in the
\* same batch order, whatever turbine is selected and whether or not the UI
\* throttle lets a render through, and per turbine the worker processes
\* samples in the order they arrived.  The messages the worker has handled
\* followed by those waiting in its queue are the arrays received, entry by
\* entry; the add() calls made for a turbine are its payloads in arrival
\* order and the Historian holds the latest of them; the worker has pushed
\* as many samples of a turbine as it has handled, the latest at the slots
\* before the head.
C37_EveryPayloadOnceInOrder ==
    /\ handled \o inbox
           = [k \in 1 .. Len(received) |->
                 [i \in 1 .. Len(received[k]) |->
                     [id          |-> received[k][i].id,
                      timestamp   |-> RDiv(received[k][i].t, R(1000)),
                      vibration   |-> received[k][i].v,
                      temperature |-> received[k][i].c]]]
    /\ \A id \in DOMAIN added :
          LET mine == Of(id, Flatten(received))
              n    == Len(mine)
              kept == IF n < hsize THEN n ELSE hsize
          IN  /\ added[id] = mine
              /\ id \in DOMAIN hfleet
              /\ hfleet[id].count = kept
              /\ getRecent(hfleet, hsize, id, hsize)
                     = SubSeq(mine, n - kept + 1, n)
    /\ \A id \in FleetIds :
          LET mine == Of(id, Flatten(handled))
              n    == Len(mine)
          IN  IF n = 0 THEN id \notin DOMAIN fleet
              ELSE /\ fleet[id].vibHead = n
                   /\ \A k \in 1 .. n :
                         k > n - RAW_BUFFER_SIZE =>
                             fleet[id].vibBuffer[(k - 1) % RAW_BUFFER_SIZE]
                                 = mine[k].vibration

\* A turbine's view is selected, the throttle has held back the last array,
\* which carries two payloads of one turbine, the worker has handled the
\* first message and the second waits in its queue.
C37_Witness ==
    /\ selectedTurbineRef # "OVERVIEW"
    /\ Len(received) = 2
    /\ fleetTelemetry # received[2]
    /\ Len(received[2]) = 2
    /\ received[2][1].id = received[2][2].id
    /\ Len(handled) = 1
    /\ Len(inbox) = 1
    /\ Len(added[received[2][1].id]) >= 2

\* What C38 says of every state: the React status and the ref agree, the
\* status is CONNECTED or STALE, and CONNECTED is never kept once the silence
\* has lasted the 2 s and a full watchdog period.
C38_StatusInvariant ==
    /\ connStatus = connStatusRef
    /\ connStatus \in {"CONNECTED", "STALE"}
    /\ connStatus = "CONNECTED" =>
           now - lastSeenRef <= StaleAfterMs + WatchdogPeriodMs

\* What C38 says of every step: the interval callback turns CONNECTED into
\* STALE exactly when the last message is more than 2000 ms old, a simulator
\* message leaves CONNECTED and stamps lastSeenRef, nothing else changes the
\* status.
C38_StatusStep ==
    LET watchdogRan == watchdogDue' # watchdogDue
        messageCame == Len(received') > Len(received)
        silent      == now - lastSeenRef > 2000
    IN  /\ watchdogRan =>
              /\ watchdogDue' = watchdogDue + 1000
              /\ connStatus' = IF connStatus = "CONNECTED" /\ silent
                               THEN "STALE" ELSE connStatus
        /\ messageCame => connStatus' = "CONNECTED" /\ lastSeenRef' = now
        /\ (~watchdogRan /\ ~messageCame) =>
              connStatus' = connStatus /\ lastSeenRef' = lastSeenRef
        /\ connStatusRef' = connStatus'

\* C38: while the status is CONNECTED, the watchdog, run every 1 s, sets it
\* to STALE when no simulator message has arrived for more than 2 s; a
\* simulator message received while STALE sets it back to CONNECTED; the ref
\* and the React status hold the same value after every handler; RECONNECTING
\* and DISCONNECTED are never entered once the simulation worker is started.
C38_StaleWatchdog == []C38_StatusInvariant /\ [][C38_StatusStep]_vars

\* The only message of the run arrives after the watchdog has found the
\* data stale, and the status is CONNECTED again.
C38_Witness ==
    /\ Len(received) = 1
    /\ lastSeenRef > MountMs + StaleAfterMs + WatchdogPeriodMs
    /\ connStatus = "CONNECTED"
    /\ connStatusRef = "CONNECTED"

\* The status while the data is stale.
C38_WitnessStale ==
    /\ connStatus = "STALE"
    /\ connStatusRef = "STALE"
    /\ now - lastSeenRef > StaleAfterMs

====
